---- MODULE Spec2Model ----
(***************************************************************************)
(* Filtered-query engine and cross-filter reconciliation protocol of the   *)
(* NERIS dashboards (neris_dash_common + apps/cornsacks).                  *)
(*                                                                         *)
(* Three specifications share the variables below:                        *)
(*   SpecAuth   the authorization cache and the relation constructor      *)
(*   SpecProto  update_filters_from_crossfilter_selection as a function   *)
(*   Spec       the dashboard: filter store, UI controls, controllers,    *)
(*              memoization and callback dispatch                         *)
(***************************************************************************)
EXTENDS Integers, Sequences, FiniteSets, TLC

VARIABLES
    sessionSid,   \* flask session[_SESSION_ID_KEY]; 0 when the session has none
    redisAuth,    \* redis: sid -> [present, val], the neris:auth:<sid>:<key> entry
    nextSid,      \* number of session ids handed out by secrets.token_urlsafe
    rel,          \* the relation built last by a constructor call
    call,         \* arguments of the last update_filters_from_crossfilter_selection call
    ret,          \* its return value
    filters,      \* dcc.Store "filters": the shared filter store
    ui,           \* values of the nine filter controls
    chartData,    \* selectedData / clickData of the four cross-filter charts
    nClicks,      \* n_clicks of the clear buttons
    memo,         \* flask-caching memoize entries: set of [fn, args, out]
    pending,      \* callbacks the renderer has requested and not yet run
    lastRun,      \* the controller run of the last step if it wrote the store: what it read
    interactions, \* number of user interactions so far
    inflight,     \* requests sent together: the State each one carries, and its answer
    wave,         \* the last user interaction, and the store changes made since
    condition,    \* a FilterType.build_condition call: its arguments and its result
    query,        \* a query method called on a relation: the data, the arguments, the result
    registry,     \* a FilterRegistry under construction: self._groups
    manager,      \* DuckDBManager: thread-local storage and the threads calling get_connection
    plan,         \* a relation object: its query plan and the query the engine ran last
    hcache,       \* the memoized hierarchical controllers: cache entries and the last invocation
    zoom,         \* a treemap being zoomed out: the store, and what each click returned
    authCall,     \* the last get_and_cache_permissions call: what it did and returned
    secrets,      \* aws.py: _secrets, _secrets_lock and the threads calling get_secret
    request       \* a flask request and what _extract_token_from_request returned for it

authVars  == <<sessionSid, redisAuth, nextSid, rel>>
protoVars == <<call, ret>>
typeVars  == <<condition>>
libVars   == <<query, registry, manager, plan>>
moreVars  == <<hcache, zoom, authCall, secrets, request>>
dashVars  == <<filters, ui, chartData, nClicks, memo, pending, lastRun, interactions,
               inflight, wave>>
vars      == <<sessionSid, redisAuth, nextSid, rel, call, ret, filters, ui,
               chartData, nClicks, memo, pending, lastRun, interactions, inflight,
               wave, condition, query, registry, manager, plan, hcache, zoom,
               authCall, secrets, request>>

(***************************************************************************)
(* Bounds of the model.                                                    *)
(***************************************************************************)
MaxSid == 2
MaxInteractions == 3
MaxChanges == 3
MaxEntries == 2
MaxDepth == 3

(***************************************************************************)
(* Python values.  Every value is a record of one shape so that any two    *)
(* values can be compared:                                                 *)
(*   tag "none"  None                                                      *)
(*   tag "bool"  n = 1 for True, 0 for False                               *)
(*   tag "num"   int or float, n = the number in tenths (2.2 is 22)        *)
(*   tag "str"   s = the text split at the "||" separator                  *)
(*   tag "list"  l = the elements (scalars)                                *)
(***************************************************************************)
NoneV    == [tag |-> "none", s |-> <<>>, n |-> 0, l |-> <<>>]
BoolV(b) == [tag |-> "bool", s |-> <<>>, n |-> IF b THEN 1 ELSE 0, l |-> <<>>]
TenthsV(t) == [tag |-> "num", s |-> <<>>, n |-> t, l |-> <<>>]
IntV(i)  == TenthsV(10 * i)
PathV(segs) == [tag |-> "str", s |-> segs, n |-> 0, l |-> <<>>]
StrV(x)  == PathV(<<x>>)
ListV(q) == [tag |-> "list", s |-> <<>>, n |-> 0, l |-> q]
AllV     == StrV("all")

\* bool(v): Python truthiness
Truthy(v) ==
    CASE v.tag = "none" -> FALSE
      [] v.tag = "bool" -> v.n = 1
      [] v.tag = "num"  -> v.n # 0
      [] v.tag = "str"  -> v.s # <<"">>
      [] OTHER          -> Len(v.l) > 0

\* a == b in Python: bool, int and float compare by number
PyEq(a, b) ==
    IF a.tag \in {"bool", "num"} /\ b.tag \in {"bool", "num"}
    THEN (IF a.tag = "bool" THEN 10 * a.n ELSE a.n) = (IF b.tag = "bool" THEN 10 * b.n ELSE b.n)
    ELSE a = b

(***************************************************************************)
(* Dictionaries are functions; d.get(k) and d[k] = v.                      *)
(***************************************************************************)
EmptyDict == [k \in {} |-> NoneV]
Get(d, k) == IF k \in DOMAIN d THEN d[k] ELSE NoneV
Put(d, k, v) == [x \in (DOMAIN d) \cup {k} |-> IF x = k THEN v ELSE d[x]]

\* the strings of the model in Python's (code point) order, for sorted()
StrOrder == <<"", "0", "23", "5", "2024-01-01", "2024-01-01T08:00", "2024-01-01T17:30",
              "2024-03-15", "2024-03-15T12:00", "ALL", "FD1", "FD2", "FIRE", "Friday",
              "GIVEN", "Monday", "NY", "RESCUE", "STRUCTURE", "Saturday",
              "Sunday", "Thursday", "Tuesday", "Wednesday", "abc", "all">>
StrRank(x) == CHOOSE i \in 1..Len(StrOrder) : StrOrder[i] = x

RECURSIVE SegsLess(_, _)
SegsLess(p, q) ==
    IF p = <<>> THEN q # <<>>
    ELSE IF q = <<>> THEN FALSE
    ELSE IF Head(p) = Head(q) THEN SegsLess(Tail(p), Tail(q))
    ELSE StrRank(Head(p)) < StrRank(Head(q))

\* a < b for two scalars that Python can order (both numbers or both strings)
Comparable(a, b) ==
    \/ a.tag \in {"bool", "num"} /\ b.tag \in {"bool", "num"}
    \/ a.tag = "str" /\ b.tag = "str"
PyLess(a, b) ==
    IF a.tag = "str" THEN SegsLess(a.s, b.s)
    ELSE (IF a.tag = "bool" THEN 10 * a.n ELSE a.n) < (IF b.tag = "bool" THEN 10 * b.n ELSE b.n)

\* sorted(list(S)) for a set S of mutually comparable scalars
RECURSIVE SortedList(_)
SortedList(S) ==
    IF S = {} THEN <<>>
    ELSE LET m == CHOOSE a \in S : \A b \in S \ {a} : PyLess(a, b)
         IN <<m>> \o SortedList(S \ {m})
AllComparable(S) == \A a, b \in S : Comparable(a, b)

SeqToSet(q) == {q[i] : i \in 1..Len(q)}

(***************************************************************************)
(* filters.py: filter types, filter configs, the registry.                 *)
(***************************************************************************)
\* FILTER_TYPES: name -> default_value
FILTER_TYPES ==
    [ boolean          |-> [name |-> "boolean",          default_value |-> BoolV(FALSE)],
      categorical      |-> [name |-> "categorical",      default_value |-> AllV],
      date_gte         |-> [name |-> "date_gte",         default_value |-> NoneV],
      date_lte         |-> [name |-> "date_lte",         default_value |-> NoneV],
      categorical_list |-> [name |-> "categorical_list", default_value |-> AllV],
      prefix           |-> [name |-> "prefix",           default_value |-> AllV] ]

resolve_filter_type(filter_config) == FILTER_TYPES[filter_config.filter_type]

\* FilterConfig(filter_key, field_name, filter_type, ...) with the dataclass defaults
FilterConfig(key, field, type) ==
    [filter_key |-> key, field_name |-> field, filter_type |-> type,
     exclude_from_display |-> FALSE, clearable |-> TRUE, source |-> "ui"]

\* A SQL condition: field, operator, operand values.  NoCondition is None.
Condition(field, op, args) == [field |-> field, op |-> op, args |-> args]
NoCondition == Condition("", "none", <<>>)

\* _categorical_condition without the test for "all"
NoSentinel(field, value) ==
    IF Truthy(value) THEN Condition(field, "=", <<value>>) ELSE NoCondition

_categorical_condition(field, value) ==
    IF Truthy(value) /\ value # AllV
    THEN Condition(field, "=", <<value>>)
    ELSE NoCondition

_categorical_list_condition(field, value) ==
    IF ~Truthy(value) \/ value = AllV \/ (value.tag = "list" /\ Len(value.l) = 0)
    THEN NoCondition
    ELSE IF value.tag = "list"
    THEN Condition(field, "IN", value.l)
    ELSE Condition(field, "=", <<value>>)

_prefix_condition(field, value) ==
    IF ~Truthy(value) \/ value = AllV \/ (value.tag = "list" /\ Len(value.l) = 0)
    THEN NoCondition
    ELSE IF value.tag = "list"
    THEN Condition(field, "LIKE_ANY", value.l)
    ELSE Condition(field, "LIKE", <<value>>)

\* FilterType.build_condition of the six registered types
build_condition(type, field, value) ==
    CASE type = "boolean" ->
            IF Truthy(value) THEN Condition(field, "= true", <<>>) ELSE NoCondition
      [] type = "categorical" -> _categorical_condition(field, value)
      [] type = "date_gte" ->
            IF Truthy(value) THEN Condition(field, ">=", <<value>>) ELSE NoCondition
      [] type = "date_lte" ->
            IF Truthy(value) THEN Condition(field, "<=", <<value>>) ELSE NoCondition
      [] type = "categorical_list" -> _categorical_list_condition(field, value)
      [] OTHER -> _prefix_condition(field, value)

(***************************************************************************)
(* The text of a condition.  A text is a sequence of pieces; the single    *)
(* quote character is always a piece of its own, so that str.replace on    *)
(* quotes and the quoting of a literal can be followed piece by piece.     *)
(***************************************************************************)
Quote == "'"

\* the strings of the model that contain quotes, cut at the quotes
Pieces(x) ==
    CASE x = "" -> <<>>
      [] x = "O'Brien" -> <<"O", Quote, "Brien">>
      [] x = "x' OR '1'='1" -> <<"x", Quote, " OR ", Quote, "1", Quote, "=", Quote, "1">>
      [] x = "'" -> <<Quote>>
      [] OTHER -> <<x>>

RECURSIVE JoinTexts(_, _)
\* sep.join(texts)
JoinTexts(texts, sep) ==
    IF texts = <<>> THEN <<>>
    ELSE IF Len(texts) = 1 THEN texts[1]
    ELSE texts[1] \o <<sep>> \o JoinTexts(Tail(texts), sep)

\* str(n) of a number held in tenths: an int when whole, else a float
NumText(n) ==
    LET a == IF n < 0 THEN 0 - n ELSE n
        sign == IF n < 0 THEN <<"-">> ELSE <<>>
    IN IF a % 10 = 0 THEN sign \o <<ToString(a \div 10)>>
       ELSE sign \o <<ToString(a \div 10), ".", ToString(a % 10)>>

\* str(v) of a scalar
ScalarText(v) ==
    CASE v.tag = "none" -> <<"None">>
      [] v.tag = "bool" -> IF v.n = 1 THEN <<"True">> ELSE <<"False">>
      [] v.tag = "num"  -> NumText(v.n)
      [] OTHER -> JoinTexts([i \in 1..Len(v.s) |-> Pieces(v.s[i])], "||")

\* repr(v) of a list element: a string is put in single quotes, or in double
\* quotes when it holds a single quote
ElementRepr(v) ==
    IF v.tag # "str" THEN ScalarText(v)
    ELSE IF Quote \in SeqToSet(ScalarText(v))
    THEN <<"\"">> \o ScalarText(v) \o <<"\"">>
    ELSE <<Quote>> \o ScalarText(v) \o <<Quote>>

\* str(v)
PyStr(v) ==
    IF v.tag = "list"
    THEN <<"[">> \o JoinTexts([i \in 1..Len(v.l) |-> ElementRepr(v.l[i])], ", ") \o <<"]">>
    ELSE ScalarText(v)

RECURSIVE Doubled(_)
\* text.replace("'", "''")
Doubled(text) ==
    IF text = <<>> THEN <<>>
    ELSE (IF Head(text) = Quote THEN <<Quote, Quote>> ELSE <<Head(text)>>)
            \o Doubled(Tail(text))

_format_sql_value(v) ==
    IF v.tag \in {"bool", "num"} THEN PyStr(v)
    ELSE <<Quote>> \o Doubled(PyStr(v)) \o <<Quote>>

\* the string a build_condition function returns, by return statement
ConditionText(c) ==
    CASE c.op = "none" -> <<>>
      [] c.op = "= true" -> <<c.field, " = true">>
      [] c.op = "=" -> <<c.field, " = ">> \o _format_sql_value(c.args[1])
      [] c.op = "IN" ->
            <<c.field, " IN (">>
                \o JoinTexts([i \in 1..Len(c.args) |-> _format_sql_value(c.args[i])], ", ")
                \o <<")">>
      [] c.op = "LIKE" ->
            <<c.field, " LIKE ", Quote>> \o Doubled(PyStr(c.args[1])) \o <<"%", Quote>>
      [] c.op = "LIKE_ANY" ->
            <<"(">>
                \o JoinTexts([i \in 1..Len(c.args) |->
                                <<c.field, " LIKE ", Quote>>
                                    \o Doubled(PyStr(c.args[i])) \o <<"%", Quote>>],
                             " OR ")
                \o <<")">>
      [] c.op = ">=" -> <<c.field, " >= ", Quote>> \o PyStr(c.args[1]) \o <<Quote>>
      [] OTHER -> <<c.field, " <= ", Quote>> \o PyStr(c.args[1]) \o <<Quote>>

\* no build_condition call has been made
NoBuild ==
    [filter_type |-> "", field |-> "", value |-> NoneV, built |-> FALSE,
     result |-> NoCondition, sql |-> <<>>]
\* the call build_condition(field, value) of a filter type, not yet answered
Build(type, field, value) ==
    [filter_type |-> type, field |-> field, value |-> value, built |-> FALSE,
     result |-> NoCondition, sql |-> <<>>]

\* tables.py FILTER_REGISTRY: the groups in declaration order
IncidentsConfigs ==
    << [FilterConfig("authorized_neris_ids", "neris_id_dept", "categorical_list")
            EXCEPT !.source = "cache", !.exclude_from_display = TRUE, !.clearable = FALSE],
       FilterConfig("csst_hazard_only", "csst_hazard_flag", "boolean"),
       FilterConfig("electric_hazard_only", "electric_hazard_flag", "boolean"),
       FilterConfig("powergen_hazard_only", "powergen_hazard_flag", "boolean"),
       FilterConfig("medical_oxygen_hazard_only", "medical_oxygen_hazard_flag", "boolean"),
       FilterConfig("aid_direction", "aid_direction", "categorical"),
       FilterConfig("department_state", "department_state", "categorical"),
       FilterConfig("neris_id_dept", "neris_id_dept", "categorical"),
       FilterConfig("start_date", "call_create", "date_gte"),
       FilterConfig("end_date", "call_create", "date_lte"),
       FilterConfig("day_of_week", "call_create_day_of_week", "categorical_list"),
       FilterConfig("hour", "call_create_hour", "categorical_list"),
       FilterConfig("location_use_path",
                    "COALESCE(type_location_use, 'No Location Use Provided')", "prefix") >>

IncidentTypesConfigs ==
    << [FilterConfig("primary_only", "primary_type", "boolean")
            EXCEPT !.exclude_from_display = TRUE],
       FilterConfig("type_incident", "type_incident", "prefix") >>

CasualtyRescuesConfigs ==
    << FilterConfig("type_ff_nonff", "type_ff_nonff", "categorical") >>

FILTER_REGISTRY ==
    << [name |-> "incidents", configs |-> IncidentsConfigs],
       [name |-> "incident_types", configs |-> IncidentTypesConfigs],
       [name |-> "casualty_rescues", configs |-> CasualtyRescuesConfigs] >>

\* FilterRegistry.get_group
get_group(name) ==
    LET g == CHOOSE i \in 1..Len(FILTER_REGISTRY) : FILTER_REGISTRY[i].name = name
    IN FILTER_REGISTRY[g].configs

\* every config of every group, in iteration order
RegistryConfigs == IncidentsConfigs \o IncidentTypesConfigs \o CasualtyRescuesConfigs

\* FilterRegistry._get_defaults_with_filter: idx holds the positions of the
\* configs that pass the predicate; a later config with the same key
\* overwrites an earlier one
_get_defaults_with_filter(idx) ==
    LET last(k) == CHOOSE i \in idx :
                      /\ RegistryConfigs[i].filter_key = k
                      /\ \A j \in idx : RegistryConfigs[j].filter_key = k => j <= i
    IN [k \in {RegistryConfigs[i].filter_key : i \in idx} |->
            resolve_filter_type(RegistryConfigs[last(k)]).default_value]

ConfigPositions == 1..Len(RegistryConfigs)

get_all_defaults == _get_defaults_with_filter(ConfigPositions)
\* get_clearable_defaults that keeps every config
AllDefaultsAsClearable == _get_defaults_with_filter(ConfigPositions)

get_clearable_defaults ==
    _get_defaults_with_filter({i \in ConfigPositions : RegistryConfigs[i].clearable})
get_ui_defaults ==
    _get_defaults_with_filter({i \in ConfigPositions : RegistryConfigs[i].source = "ui"})

get_cache_filter_keys ==
    {RegistryConfigs[i].filter_key : i \in {j \in 1..Len(RegistryConfigs) :
                                              RegistryConfigs[j].source = "cache"}}

\* values a filter can be given: None, booleans, strings, numbers, lists
FilterValues ==
    { NoneV, BoolV(FALSE), BoolV(TRUE), AllV, StrV(""), StrV("FIRE"),
      StrV("2024-01-01"), PathV(<<"FIRE", "STRUCTURE">>), IntV(0), IntV(5),
      ListV(<<>>), ListV(<<AllV>>), ListV(<<StrV("FIRE")>>),
      ListV(<<StrV("FIRE"), StrV("RESCUE")>>), ListV(<<AllV, StrV("FIRE")>>),
      StrV("O'Brien"), StrV("x' OR '1'='1"), StrV("'"), TenthsV(22),
      ListV(<<StrV("O'Brien"), StrV("FIRE")>>), ListV(<<IntV(5), IntV(23)>>) }

\* filter_type.build_condition(filter_config.field_name, filter_value)
BuildCondition ==
    /\ condition.filter_type # ""
    /\ ~condition.built
    /\ condition' = [condition EXCEPT
                        !.built = TRUE,
                        !.result = build_condition(condition.filter_type,
                                                   condition.field, condition.value),
                        !.sql = ConditionText(build_condition(condition.filter_type,
                                                   condition.field, condition.value))]
    /\ UNCHANGED <<authVars, protoVars, libVars, moreVars, dashVars>>

(***************************************************************************)
(* filters.py: building a FilterRegistry.                                  *)
(***************************************************************************)
\* no registry has been built
NoRegistry == [built |-> FALSE, groups |-> [n \in {} |-> <<>>]]

\* configs a dashboard may register; two of them have the same filter_key
GroupConfigs ==
    { FilterConfig("start_date", "call_create", "date_gte"),
      FilterConfig("start_date", "call_create", "date_lte"),
      FilterConfig("hour", "call_create_hour", "categorical_list") }
MaxConfigs == 2
GroupLists == UNION {[1..n -> GroupConfigs] : n \in 0..MaxConfigs}
GroupNames == {"incidents", "incident_types"}

\* FilterRegistry.__init__(groups): groups or {}
FilterRegistry_init(groups) == [built |-> TRUE, groups |-> groups]

\* FilterRegistry.add_group(name, configs): self._groups[name] = configs
add_group(reg, name, configs) ==
    [reg EXCEPT !.groups = [n \in (DOMAIN reg.groups) \cup {name} |->
                               IF n = name THEN configs ELSE reg.groups[n]]]

NewRegistry ==
    /\ ~registry.built
    /\ \E names \in SUBSET GroupNames :
          \E groups \in [names -> GroupLists] :
              registry' = FilterRegistry_init(groups)
    /\ UNCHANGED <<query, manager, plan, authVars, protoVars, typeVars, moreVars, dashVars>>

AddGroup ==
    /\ registry.built
    /\ \E name \in GroupNames, configs \in GroupLists :
          registry' = add_group(registry, name, configs)
    /\ UNCHANGED <<query, manager, plan, authVars, protoVars, typeVars, moreVars, dashVars>>

(***************************************************************************)
(* data.py: DuckDBManager.get_connection, called from several threads.     *)
(* A connection is named by the number of its duckdb.connect() call.       *)
(***************************************************************************)
MaxThreads == 2
MaxCalls == 2
Threads == 1..MaxThreads

\* one storage for all threads, in the place of threading.local()
SharedSlot(t) == 1

\* threading.local(): the attributes of _thread_local are kept per thread
Slot(t) == t

\* no thread has run: no connection attribute is set and nothing was created
NoThreads ==
    [connection |-> [t \in Threads |-> 0],
     pc |-> [t \in Threads |-> "idle"],
     storage_type |-> [t \in Threads |-> ""],
     con |-> [t \in Threads |-> 0],
     returned |-> [t \in Threads |-> <<>>],
     created |-> 0,
     creator |-> <<>>]

\* a thread (a callback of a request) calls get_connection
CallGetConnection(t) ==
    /\ manager.pc[t] = "idle"
    /\ Len(manager.returned[t]) < MaxCalls
    /\ \E storage_type \in {"s3", "filesystem"} :
          manager' = [manager EXCEPT !.pc[t] = "test", !.storage_type[t] = storage_type]

\* if not hasattr(cls._thread_local, "connection") or ... is None
TestConnection(t) ==
    /\ manager.pc[t] = "test"
    /\ manager' = [manager EXCEPT
                     !.pc[t] = IF manager.connection[Slot(t)] = 0 THEN "connect"
                               ELSE "return"]

\* con = _get_duckdb_connection()
Connect(t) ==
    /\ manager.pc[t] = "connect"
    /\ manager' = [manager EXCEPT
                     !.con[t] = manager.created + 1,
                     !.created = manager.created + 1,
                     !.creator = Append(manager.creator, t),
                     !.pc[t] = IF manager.storage_type[t] = "s3" THEN "configure"
                               ELSE "store"]

\* the httpfs and S3 settings of the new connection
ConfigureS3(t) ==
    /\ manager.pc[t] = "configure"
    /\ manager' = [manager EXCEPT !.pc[t] = "store"]

\* cls._thread_local.connection = con
StoreConnection(t) ==
    /\ manager.pc[t] = "store"
    /\ manager' = [manager EXCEPT !.connection[Slot(t)] = manager.con[t],
                                  !.pc[t] = "return"]

\* return cls._thread_local.connection
ReturnConnection(t) ==
    /\ manager.pc[t] = "return"
    /\ manager' = [manager EXCEPT
                     !.returned[t] = Append(manager.returned[t],
                                            manager.connection[Slot(t)]),
                     !.pc[t] = "idle"]

GetConnectionCalled ==
    /\ \E t \in Threads : CallGetConnection(t)
    /\ UNCHANGED <<query, registry, plan, authVars, protoVars, typeVars, moreVars, dashVars>>
GetConnectionTests ==
    /\ \E t \in Threads : TestConnection(t)
    /\ UNCHANGED <<query, registry, plan, authVars, protoVars, typeVars, moreVars, dashVars>>
GetConnectionConnects ==
    /\ \E t \in Threads : Connect(t)
    /\ UNCHANGED <<query, registry, plan, authVars, protoVars, typeVars, moreVars, dashVars>>
GetConnectionConfigures ==
    /\ \E t \in Threads : ConfigureS3(t)
    /\ UNCHANGED <<query, registry, plan, authVars, protoVars, typeVars, moreVars, dashVars>>
GetConnectionStores ==
    /\ \E t \in Threads : StoreConnection(t)
    /\ UNCHANGED <<query, registry, plan, authVars, protoVars, typeVars, moreVars, dashVars>>
GetConnectionReturns ==
    /\ \E t \in Threads : ReturnConnection(t)
    /\ UNCHANGED <<query, registry, plan, authVars, protoVars, typeVars, moreVars, dashVars>>

(***************************************************************************)
(* auth.py: the permission cache in Redis, keyed by the session id.        *)
(***************************************************************************)
CACHE_FILTER_KEY == "authorized_neris_ids"

Sids == 1..MaxSid
NoEntry == [present |-> FALSE, val |-> NoneV]

\* get_auth_cache_value(cache_key): None outside a request, without a stored
\* entry for the session's id, and for a stored null (ALL access)
get_auth_cache_value(inRequest, sid, redis, cache_key) ==
    IF ~inRequest THEN NoneV
    ELSE IF sid = 0 \/ cache_key # CACHE_FILTER_KEY THEN NoneV
    ELSE IF ~redis[sid].present THEN NoneV
    ELSE redis[sid].val

\* what the gate really knows about the session at that moment
AuthResolution(inRequest, sid, redis) ==
    IF ~inRequest \/ sid = 0 THEN "miss"
    ELSE IF ~redis[sid].present THEN "miss"
    ELSE IF redis[sid].val = NoneV THEN "unrestricted"
    ELSE "list"

\* A UserPermissionsResponse: entity id -> actions on the INCIDENT resource
EntityIds == {"FD1", "FD2", "ALL"}
ApiResponses ==
    {[e \in S |-> {"READ"}] : S \in SUBSET EntityIds}
        \cup {[e \in {"FD1", "FD2"} |-> IF e = "FD1" THEN {"UPDATE"} ELSE {"READ"}]}

\* extract_neris_ids_by_action_resource(permissions, "INCIDENT", "READ")
extract_neris_ids_by_action_resource(permissions, action) ==
    SortedList({StrV(e) : e \in {x \in DOMAIN permissions : action \in permissions[x]}})

extract_incident_read_neris_ids(permissions) ==
    extract_neris_ids_by_action_resource(permissions, "READ")

\* AuthManager._store_in_redis: a fresh session id, SETEX of the JSON value
_store_in_redis(value) ==
    /\ nextSid < MaxSid
    /\ nextSid' = nextSid + 1
    /\ sessionSid' = nextSid + 1
    /\ redisAuth' = [redisAuth EXCEPT ![nextSid + 1] = [present |-> TRUE, val |-> value]]

\* what a get_and_cache_permissions call did: the environment it met, whether
\* it answered from the cache, decoded the token, requested the API, aborted
\* with 401, and the value it returned
NoAuthCall ==
    [called |-> FALSE, outcome |-> "", response |-> EmptyDict, hit |-> FALSE,
     parsed |-> FALSE, fetched |-> FALSE, aborted |-> FALSE, returned |-> NoneV]
AuthCall(outcome, response, hit, parsed, fetched, aborted, returned) ==
    [called |-> TRUE, outcome |-> outcome, response |-> response, hit |-> hit,
     parsed |-> parsed, fetched |-> fetched, aborted |-> aborted, returned |-> returned]

\* the short-circuit taken only for a cached value that is not null
CachedValueSet(sid, redis) == sid # 0 /\ redis[sid].present /\ redis[sid].val # NoneV
\* line 144: sid and _get_redis().exists(key)
AlreadyCached(sid, redis) == sid # 0 /\ redis[sid].present

\* AuthManager.get_and_cache_permissions on a page load.  outcome is what the
\* environment does: "jwt" (token does not parse), "api" (request fails),
\* "mock" (NERIS_AUTH_MOCK_IDS set in the local context) or "ok" with a response.
get_and_cache_permissions(outcome, response) ==
    /\ IF AlreadyCached(sessionSid, redisAuth)
       THEN /\ UNCHANGED <<sessionSid, redisAuth, nextSid>>
            /\ authCall' = AuthCall("", EmptyDict, TRUE, FALSE, FALSE, FALSE,
                                    get_auth_cache_value(TRUE, sessionSid, redisAuth,
                                                         CACHE_FILTER_KEY))
       ELSE CASE outcome = "mock" ->
                   /\ _store_in_redis(ListV(<<StrV("FD1")>>))
                   /\ authCall' = AuthCall(outcome, response, FALSE, FALSE, FALSE, FALSE,
                                           ListV(<<StrV("FD1")>>))
              [] outcome = "jwt" ->
                   /\ UNCHANGED <<sessionSid, redisAuth, nextSid>>
                   /\ authCall' = AuthCall(outcome, response, FALSE, TRUE, FALSE, TRUE, NoneV)
              [] outcome = "api" ->
                   /\ UNCHANGED <<sessionSid, redisAuth, nextSid>>
                   /\ authCall' = AuthCall(outcome, response, FALSE, TRUE, TRUE, TRUE, NoneV)
              [] OTHER ->
                   LET processed == extract_incident_read_neris_ids(response)
                       result == IF StrV("ALL") \in SeqToSet(processed)
                                 THEN NoneV ELSE ListV(processed)
                   IN /\ _store_in_redis(result)
                      /\ authCall' = AuthCall(outcome, response, FALSE, TRUE, TRUE, FALSE,
                                              result)
    /\ UNCHANGED rel

GetAndCachePermissions ==
    \E outcome \in {"ok", "jwt", "api", "mock"}, response \in ApiResponses :
        /\ (outcome # "ok" => response = EmptyDict)
        /\ get_and_cache_permissions(outcome, response)
        /\ UNCHANGED <<hcache, zoom, secrets, request, protoVars, typeVars, libVars, dashVars>>

\* the entry's time-to-live (cache_ttl) runs out
ExpireEntry ==
    \E sid \in Sids :
        /\ redisAuth[sid].present
        /\ redisAuth' = [redisAuth EXCEPT ![sid] = NoEntry]
        /\ UNCHANGED <<sessionSid, nextSid, rel>>
        /\ UNCHANGED <<protoVars, typeVars, libVars, moreVars, dashVars>>

(***************************************************************************)
(* auth.py: _extract_token_from_request.  A text is the sequence of its    *)
(* characters; None is a value of its own.                                 *)
(***************************************************************************)
NoText == [none |-> TRUE, text |-> <<>>]
Text(q) == [none |-> FALSE, text |-> q]
\* str.lstrip(chars): leading characters that are in chars are removed
RECURSIVE lstrip(_, _)
lstrip(text, chars) ==
    IF text = <<>> THEN <<>>
    ELSE IF Head(text) \in SeqToSet(chars) THEN lstrip(Tail(text), chars)
    ELSE text
\* the characters of "Bearer "
BearerPrefix == <<"B", "e", "a", "r", "e", "r", " ">>

\* _extract_token_from_request for a request with the Authorization header
\* auth_header ("" when there is none) and the query parameter token
_extract_token_from_request(has_request_context, auth_header, query_token) ==
    IF ~has_request_context THEN NoText
    ELSE IF lstrip(auth_header, BearerPrefix) # <<>>
    THEN Text(lstrip(auth_header, BearerPrefix))
    ELSE IF ~query_token.none /\ query_token.text # <<>> THEN query_token
    ELSE NoText

\* tokens: the start of a JWT ("eyJ..."), and other texts
Tokens ==
    { <<"e", "y", "J", "0">>, <<"x", "y", "J", "0">>, <<"a", "b", "c">>,
      <<"r", "e", "B">>, <<"J", "W", "T">>, <<"9", "e", "a">> }
QueryTokens == {NoText, Text(<<"q", "1">>), Text(<<"e", "y", "J", "0">>), Text(<<>>)}
NoRequest ==
    [made |-> FALSE, has_request_context |-> FALSE, auth_header |-> <<>>,
     query_token |-> NoText, done |-> FALSE, token |-> NoText]
Requests ==
    {[made |-> TRUE, has_request_context |-> ctx, auth_header |-> header,
      query_token |-> q, done |-> FALSE, token |-> NoText] :
        ctx \in BOOLEAN, header \in {<<>>} \cup {BearerPrefix \o tok : tok \in Tokens},
        q \in QueryTokens}
ExtractTokenFromRequest ==
    /\ request.made
    /\ ~request.done
    /\ request' = [request EXCEPT
                      !.done = TRUE,
                      !.token = _extract_token_from_request(request.has_request_context,
                                                            request.auth_header,
                                                            request.query_token)]
    /\ UNCHANGED <<hcache, zoom, authCall, secrets, authVars, protoVars, typeVars, libVars, dashVars>>

(***************************************************************************)
(* cloud/aws.py: get_secret(secret_id, refresh=False) called by several    *)
(* threads for one secret id.  _secrets is read without the lock and       *)
(* written under it; a dict read or write is one step.                     *)
(***************************************************************************)
\* what Secrets Manager holds for the id: the SecretString may change between
\* two requests; a JSON text is parsed, any other text is kept as it is
SecretStrings == {"{\"user\": \"a\"}", "{\"user\": \"b\"}", "plain"}
json_loads(secret_str) ==
    IF secret_str = "plain" THEN [kind |-> "str", text |-> secret_str]
    ELSE [kind |-> "dict", text |-> secret_str]
Raises == [kind |-> "raise", text |-> ""]
NoSecret == [present |-> FALSE, val |-> Raises]

NoSecrets ==
    [cache |-> NoSecret,
     lock |-> 0,
     pc |-> [t \in Threads |-> "idle"],
     got |-> [t \in Threads |-> ""],
     returned |-> [t \in Threads |-> <<>>],
     requests |-> 0,
     fetched |-> 0]

\* the second test of the cache left out
NoSecondCheck(cache) == FALSE
\* line 30: not refresh and secret_id in _secrets, under the lock
SecondCheck(cache) == cache.present

\* a thread calls get_secret(secret_id)
CallGetSecret(t) ==
    /\ secrets.pc[t] = "idle"
    /\ Len(secrets.returned[t]) < MaxCalls
    /\ secrets' = [secrets EXCEPT !.pc[t] = "check"]
\* lines 24-25: the cache is tested without the lock
CheckCache(t) ==
    /\ secrets.pc[t] = "check"
    /\ secrets' = IF secrets.cache.present
                  THEN [secrets EXCEPT !.pc[t] = "idle",
                                       !.returned[t] = Append(@, secrets.cache.val)]
                  ELSE [secrets EXCEPT !.pc[t] = "acquire"]
\* line 28: with _secrets_lock
AcquireLock(t) ==
    /\ secrets.pc[t] = "acquire"
    /\ secrets.lock = 0
    /\ secrets' = [secrets EXCEPT !.pc[t] = "recheck", !.lock = t]
\* lines 30-31: the cache is tested again; returning releases the lock
CheckAgain(t) ==
    /\ secrets.pc[t] = "recheck"
    /\ secrets' = IF SecondCheck(secrets.cache)
                  THEN [secrets EXCEPT !.pc[t] = "idle", !.lock = 0,
                                       !.returned[t] = Append(@, secrets.cache.val)]
                  ELSE [secrets EXCEPT !.pc[t] = "fetch"]
\* lines 33-39: client.get_secret_value answers with a SecretString
FetchSecret(t) ==
    /\ secrets.pc[t] = "fetch"
    /\ \E secret_str \in SecretStrings :
          secrets' = [secrets EXCEPT !.pc[t] = "store", !.got[t] = secret_str,
                                     !.requests = @ + 1, !.fetched = @ + 1]
\* lines 49-52: ClientError, or no SecretString in the response: the call raises
\* and the lock is released
FetchFails(t) ==
    /\ secrets.pc[t] = "fetch"
    /\ secrets' = [secrets EXCEPT !.pc[t] = "idle", !.lock = 0, !.requests = @ + 1,
                                  !.returned[t] = Append(@, Raises)]
\* lines 42-47: the parsed secret is cached and returned; the lock is released
StoreSecret(t) ==
    /\ secrets.pc[t] = "store"
    /\ secrets' = [secrets EXCEPT !.pc[t] = "idle", !.lock = 0, !.got[t] = "",
                                  !.cache = [present |-> TRUE,
                                             val |-> json_loads(secrets.got[t])],
                                  !.returned[t] = Append(@, json_loads(secrets.got[t]))]

SecretsUnchanged == UNCHANGED <<hcache, zoom, authCall, request, authVars, protoVars, typeVars, libVars, dashVars>>
GetSecretCalled == (\E t \in Threads : CallGetSecret(t)) /\ SecretsUnchanged
GetSecretChecks == (\E t \in Threads : CheckCache(t)) /\ SecretsUnchanged
GetSecretLocks == (\E t \in Threads : AcquireLock(t)) /\ SecretsUnchanged
GetSecretChecksAgain == (\E t \in Threads : CheckAgain(t)) /\ SecretsUnchanged
GetSecretFetches == (\E t \in Threads : FetchSecret(t)) /\ SecretsUnchanged
GetSecretFails == (\E t \in Threads : FetchFails(t)) /\ SecretsUnchanged
GetSecretStores == (\E t \in Threads : StoreSecret(t)) /\ SecretsUnchanged

(***************************************************************************)
(* data.py / tables.py: the relation constructor and _apply_filters.       *)
(***************************************************************************)
\* a constructor argument: None or a dict
NoneArg == [none |-> TRUE, d |-> EmptyDict]
DictArg(d) == [none |-> FALSE, d |-> d]
\* "if filters:"
ArgTruthy(arg) == ~arg.none /\ DOMAIN arg.d # {}

\* _apply_filters with the cache-sourced value read from the client's dict
ApplyFiltersFromClient(configs, fltrs, inRequest, sid, redis) ==
    LET cond(i) ==
            LET filter_value == Get(fltrs, configs[i].filter_key)
            IN IF filter_value = NoneV THEN NoCondition
               ELSE build_condition(configs[i].filter_type, configs[i].field_name,
                                    filter_value)
        all == [i \in 1..Len(configs) |-> cond(i)]
    IN SelectSeq(all, LAMBDA c : c # NoCondition)

\* _DuckParquetRelationBase._apply_filters: the conditions added, in order
_apply_filters(configs, fltrs, inRequest, sid, redis) ==
    LET cond(i) ==
            LET filter_config == configs[i]
                filter_value ==
                    IF filter_config.source = "cache"
                    THEN get_auth_cache_value(inRequest, sid, redis, filter_config.filter_key)
                    ELSE Get(fltrs, filter_config.filter_key)
            IN IF filter_value = NoneV THEN NoCondition
               ELSE build_condition(filter_config.filter_type,
                                    filter_config.field_name, filter_value)
        all == [i \in 1..Len(configs) |-> cond(i)]
    IN SelectSeq(all, LAMBDA c : c # NoCondition)

\* _DuckParquetRelationBase.__init__
Relation_init(configs, arg, inRequest, sid, redis) ==
    IF ArgTruthy(arg) THEN _apply_filters(configs, arg.d, inRequest, sid, redis) ELSE <<>>

RelationClasses == {"IncidentsRelation", "IncidentTypesRelation", "CasualtyRescuesRelation"}
_filter_configs(cls) ==
    CASE cls = "IncidentsRelation" -> get_group("incidents")
      [] cls = "IncidentTypesRelation" -> get_group("incident_types")
      [] OTHER -> get_group("casualty_rescues")

\* IncidentsRelation._apply_cross_relation_filters: the joins added
_apply_cross_relation_filters(fltrs, inRequest, sid, redis) ==
    IF Truthy(Get(fltrs, "type_incident")) /\ Get(fltrs, "type_incident") # AllV
    THEN << [cls |-> "IncidentTypesRelation",
             preds |-> Relation_init(_filter_configs("IncidentTypesRelation"),
                                     DictArg(fltrs), inRequest, sid, redis)] >>
    ELSE <<>>

\* the constructor of a relation class (IncidentsRelation overrides __init__)
NewRelation(cls, arg, inRequest, sid, redis) ==
    [built |-> TRUE, cls |-> cls, arg |-> arg, inRequest |-> inRequest,
     preds |-> Relation_init(_filter_configs(cls), arg, inRequest, sid, redis),
     joins |-> IF cls = "IncidentsRelation" /\ ArgTruthy(arg)
               THEN _apply_cross_relation_filters(arg.d, inRequest, sid, redis)
               ELSE <<>>,
     resolution |-> AuthResolution(inRequest, sid, redis),
     authVal |-> get_auth_cache_value(inRequest, sid, redis, CACHE_FILTER_KEY),
     executed |-> FALSE]

NoRelation ==
    [built |-> FALSE, cls |-> "", arg |-> NoneArg, inRequest |-> FALSE, preds |-> <<>>,
     joins |-> <<>>, resolution |-> "miss", authVal |-> NoneV, executed |-> FALSE]

\* filter-value maps handed to the constructors
FilterArgs ==
    { NoneArg,
      DictArg(EmptyDict),
      DictArg(get_ui_defaults),
      DictArg(Put(get_ui_defaults, "csst_hazard_only", BoolV(TRUE))),
      DictArg(Put(get_ui_defaults, "type_incident", StrV("FIRE"))),
      DictArg(Put(get_ui_defaults, CACHE_FILTER_KEY, AllV)),
      DictArg(Put(get_ui_defaults, CACHE_FILTER_KEY, ListV(<<StrV("FD2")>>))),
      DictArg(Put(EmptyDict, CACHE_FILTER_KEY, ListV(<<StrV("FD2")>>))) }

BuildRelation ==
    \E cls \in RelationClasses, arg \in FilterArgs, inRequest \in BOOLEAN :
        /\ rel' = NewRelation(cls, arg, inRequest, sessionSid, redisAuth)
        /\ UNCHANGED <<sessionSid, redisAuth, nextSid>>
        /\ UNCHANGED <<protoVars, typeVars, libVars, moreVars, dashVars>>

\* df / count / distinct / aggregate / sample: _build_relation applies
\* self._filters and the joins, and the engine runs the query
ExecuteRelation ==
    /\ rel.built
    /\ ~rel.executed
    /\ rel' = [rel EXCEPT !.executed = TRUE]
    /\ UNCHANGED <<sessionSid, redisAuth, nextSid>>
    /\ UNCHANGED <<protoVars, typeVars, libVars, moreVars, dashVars>>

(***************************************************************************)
(* crossfilters.py: update_filters_from_crossfilter_selection.             *)
(*                                                                         *)
(* An interaction payload (selectedData / clickData) is None or a dict     *)
(* with an optional "points" list and an optional "range" dict; a point is *)
(* a dict from attribute to value; an axis order is None or a list.        *)
(***************************************************************************)
NoRange == [hasX |-> FALSE, x |-> <<>>, hasY |-> FALSE, y |-> <<>>]
NonePayload == [none |-> TRUE, hasPoints |-> FALSE, points |-> <<>>,
                hasRange |-> FALSE, range |-> NoRange]
EmptyPayload == [NonePayload EXCEPT !.none = FALSE]
PointsPayload(pts) == [EmptyPayload EXCEPT !.hasPoints = TRUE, !.points = pts]
RangeXPayload(lo, hi) ==
    [EmptyPayload EXCEPT !.hasRange = TRUE,
                         !.range = [NoRange EXCEPT !.hasX = TRUE, !.x = <<lo, hi>>]]
RangeXYPayload(xlo, xhi, ylo, yhi) ==
    [EmptyPayload EXCEPT !.hasRange = TRUE,
                         !.range = [hasX |-> TRUE, x |-> <<xlo, xhi>>,
                                    hasY |-> TRUE, y |-> <<ylo, yhi>>]]
\* bool(data) of a payload: None and {} are falsy
PayloadTruthy(data) == ~data.none /\ (data.hasPoints \/ data.hasRange)

NoOrder == [none |-> TRUE, l |-> <<>>]
Order(q) == [none |-> FALSE, l |-> q]

\* _MISSING
MissingV == [tag |-> "missing", s |-> <<>>, n |-> 0, l |-> <<>>]

\* int(round(val)) of a number in tenths: Python rounds halves to even
\* int(val) in the place of int(round(val))
Truncated(n) == IF n >= 0 THEN n \div 10 ELSE -((-n) \div 10)

PyRound(n) ==
    LET q == n \div 10
        r == n % 10
    IN IF r < 5 THEN q
       ELSE IF r > 5 THEN q + 1
       ELSE IF q % 2 = 0 THEN q ELSE q + 1

\* str.isdigit() and int() on the digit strings of the model
DigitValue == [x \in {"0", "5", "23"} |-> CASE x = "0" -> 0 [] x = "5" -> 5 [] OTHER -> 23]
IsDigitStr(v) == v.tag = "str" /\ Len(v.s) = 1 /\ v.s[1] \in DOMAIN DigitValue

\* "val in order"
InList(val, q) == \E i \in 1..Len(q) : PyEq(q[i], val)

\* _resolve_point_value with order[idx] taken as Python indexes a list: a
\* negative index counts from the end
Wrapping(val, order, handle_digit_strings) ==
    IF order.none THEN val
    ELSE IF val.tag \in {"num", "bool"}
    THEN LET idx == PyRound(IF val.tag = "bool" THEN 10 * val.n ELSE val.n)
         IN IF 0 <= idx /\ idx < Len(order.l) THEN order.l[idx + 1]
            ELSE IF -Len(order.l) <= idx /\ idx < 0 THEN order.l[Len(order.l) + idx + 1]
            ELSE MissingV
    ELSE IF handle_digit_strings /\ IsDigitStr(val)
            /\ InList(IntV(DigitValue[val.s[1]]), order.l)
    THEN IntV(DigitValue[val.s[1]])
    ELSE val

_resolve_point_value(val, order, handle_digit_strings) ==
    IF order.none THEN val
    ELSE IF val.tag \in {"num", "bool"}
    THEN LET idx == PyRound(IF val.tag = "bool" THEN 10 * val.n ELSE val.n)
         IN IF 0 <= idx /\ idx < Len(order.l) THEN order.l[idx + 1] ELSE MissingV
    ELSE IF handle_digit_strings /\ IsDigitStr(val)
            /\ InList(IntV(DigitValue[val.s[1]]), order.l)
    THEN IntV(DigitValue[val.s[1]])
    ELSE val

\* _resolve_coordinate_range: the set of values the range stands for
_resolve_coordinate_range(range_pair, order) ==
    IF Len(range_pair) # 2 THEN {}
    ELSE IF order.none THEN SeqToSet(range_pair)
    ELSE LET start == PyRound(range_pair[1].n)
             end == PyRound(range_pair[2].n)
         IN {order.l[idx + 1] : idx \in {i \in start..end : 0 <= i /\ i < Len(order.l)}}

\* round() raises TypeError for a coordinate that is not a number
RangeRaises(range_pair, order) ==
    /\ Len(range_pair) = 2
    /\ ~order.none
    /\ \E i \in 1..2 : range_pair[i].tag \notin {"num", "bool"}

\* _parse_selected_points: attribute -> set of resolved values
_parse_selected_points(data, x_order, y_order) ==
    IF ~PayloadTruthy(data) \/ ~data.hasPoints THEN EmptyDict
    ELSE LET pts == data.points
             attrs == UNION {DOMAIN pts[i] : i \in 1..Len(pts)}
             val(a, pt) == CASE a = "x" -> _resolve_point_value(pt[a], x_order, FALSE)
                             [] a = "y" -> _resolve_point_value(pt[a], y_order, TRUE)
                             [] OTHER -> pt[a]
         IN [a \in attrs |->
                {val(a, pts[i]) : i \in {j \in 1..Len(pts) : a \in DOMAIN pts[j]}}
                    \ {MissingV}]

\* _parse_selected_range: (selected_x, selected_y)
_parse_selected_range(data, x_order, y_order) ==
    IF ~PayloadTruthy(data) \/ ~data.hasRange THEN <<{}, {}>>
    ELSE << IF data.range.hasX THEN _resolve_coordinate_range(data.range.x, x_order) ELSE {},
            IF data.range.hasY THEN _resolve_coordinate_range(data.range.y, y_order) ELSE {} >>

_is_selection_empty(selected_data) ==
    \/ ~PayloadTruthy(selected_data)
    \/ /\ (~selected_data.hasPoints \/ selected_data.points = <<>>)
       /\ (~selected_data.hasRange
           \/ (~selected_data.range.hasX /\ ~selected_data.range.hasY))

\* _handle_hierarchical_zoom_out that rewrites nothing
NoZoomOut(data, default_value) == data

\* _handle_hierarchical_zoom_out that rewrites every clicked centre node to the root
ZoomToRoot(data, default_value) ==
    IF ~PayloadTruthy(data) \/ ~data.hasPoints THEN data
    ELSE LET newPoint(point) ==
                 IF /\ PyEq(Get(point, "percentEntry"), IntV(1))
                    /\ Get(point, "id").tag = "str"
                    /\ Get(point, "id") # default_value
                 THEN Put(point, "id", default_value)
                 ELSE point
         IN PointsPayload([i \in 1..Len(data.points) |-> newPoint(data.points[i])])

\* _handle_hierarchical_zoom_out: a clicked centre node is rewritten to its parent
_handle_hierarchical_zoom_out(data, default_value) ==
    IF ~PayloadTruthy(data) \/ ~data.hasPoints THEN data
    ELSE LET newPoint(point) ==
                 LET current_id == Get(point, "id")
                 IN IF /\ PyEq(Get(point, "percentEntry"), IntV(1))
                       /\ current_id.tag = "str"
                       /\ current_id # default_value
                    THEN IF Len(current_id.s) > 1
                         THEN Put(point, "id", PathV(SubSeq(current_id.s, 1,
                                                            Len(current_id.s) - 1)))
                         ELSE Put(point, "id", default_value)
                    ELSE point
         IN PointsPayload([i \in 1..Len(data.points) |-> newPoint(data.points[i])])

\* A filter_mapping target: one key, or a tuple of two keys
OneKey(k) == [tuple |-> FALSE, keys |-> <<k>>]
TwoKeys(k1, k2) == [tuple |-> TRUE, keys |-> <<k1, k2>>]

\* _get_crossfilter_keys keeping the first key of a tuple only
FirstKeysOnly(filter_mapping) == {filter_mapping[a].keys[1] : a \in DOMAIN filter_mapping}

_get_crossfilter_keys(filter_mapping) ==
    UNION {SeqToSet(filter_mapping[a].keys) : a \in DOMAIN filter_mapping}

\* _exclude_keys with nothing excluded
ExcludeNothing(fltrs, keys_to_exclude) == fltrs

_exclude_keys(fltrs, keys_to_exclude) ==
    [k \in (DOMAIN fltrs) \ keys_to_exclude |-> fltrs[k]]

\* Python == on store values: lists element by element
ValEq(a, b) ==
    IF a.tag = "list" /\ b.tag = "list"
    THEN Len(a.l) = Len(b.l) /\ \A i \in 1..Len(a.l) : PyEq(a.l[i], b.l[i])
    ELSE PyEq(a, b)

\* _is_active that never sees an active filter
NeverActive(fltrs, keys, default_value) == FALSE

_is_active(fltrs, keys, default_value) ==
    \E k \in keys : ~ValEq(Get(fltrs, k), default_value)

_apply_defaults(fltrs, keys, default_value) ==
    [k \in (DOMAIN fltrs) \cup keys |-> IF k \in keys THEN default_value ELSE fltrs[k]]

\* _is_unchanged that never finds the filters unchanged
NeverUnchanged(new_filters, old_filters, keys) == FALSE

_is_unchanged(new_filters, old_filters, keys) ==
    \A k \in keys : ValEq(Get(new_filters, k), Get(old_filters, k))

\* int(v) where Python can convert: numbers truncate toward zero
CanInt(v) == v.tag \in {"num", "bool"} \/ IsDigitStr(v)
ToInt(v) ==
    CASE v.tag = "bool" -> v.n
      [] v.tag = "num"  -> IF v.n >= 0 THEN v.n \div 10 ELSE -((-v.n) \div 10)
      [] OTHER          -> DigitValue[v.s[1]]

\* sorted([int(v) for v in S]); values with the same int stay in the list
RECURSIVE SortedInts(_)
SortedInts(S) ==
    IF S = {} THEN <<>>
    ELSE LET m == CHOOSE i \in {ToInt(v) : v \in S} : \A v \in S : i <= ToInt(v)
             same == {v \in S : ToInt(v) = m}
         IN [i \in 1..Cardinality(same) |-> IntV(m)] \o SortedInts(S \ same)

\* sorted() raises TypeError when two of the values cannot be ordered
Sortable(S) == \A a, b \in S : a # b => Comparable(a, b)

Raised == [raised |-> TRUE, f |-> EmptyDict]
Returned(f) == [raised |-> FALSE, f |-> f]

\* the outcome of lines 365-372: an exception, or the list to store
NotStored == [raised |-> TRUE, l |-> <<>>]
Stored(q) == [raised |-> FALSE, l |-> q]

\* lines 365-372 coercing value by value once the first value parses
CoercedOneByOne(selected_values, first_val) ==
    IF ~Sortable(selected_values) THEN NotStored
    ELSE IF CanInt(first_val)
    THEN Stored([i \in 1..Cardinality(selected_values) |->
                    IF CanInt(SortedList(selected_values)[i])
                    THEN IntV(ToInt(SortedList(selected_values)[i]))
                    ELSE SortedList(selected_values)[i]])
    ELSE Stored(SortedList(selected_values))

\* lines 365-372, first_val being next(iter(selected_values)): int(first_val)
\* and the int(v) of the list comprehension raise ValueError / TypeError for a
\* value that is no number, and the handler stores the values as they are
CategoricalSelection(selected_values, first_val) ==
    IF CanInt(first_val) /\ \A v \in selected_values : CanInt(v)
    THEN Stored(SortedInts(selected_values))
    ELSE IF ~Sortable(selected_values) THEN NotStored
    ELSE Stored(SortedList(selected_values))

\* _update_filters_from_selection_values that leaves the filters as they are
KeepFilters(fltrs, filter_key, selected_values, default_value) == Returned(fltrs)

\* _update_filters_from_selection_values
_update_filters_from_selection_values(fltrs, filter_key, selected_values, default_value) ==
    IF \/ selected_values = {}
       \/ (Cardinality(selected_values) = 1 /\ \A v \in selected_values : PyEq(v, default_value))
    THEN Returned(_apply_defaults(fltrs, SeqToSet(filter_key.keys), default_value))
    ELSE IF filter_key.tuple
    THEN IF ~Sortable(selected_values) THEN Raised
         ELSE LET sorted_values == SortedList(selected_values)
              IN Returned(Put(Put(fltrs, filter_key.keys[1], sorted_values[1]),
                              filter_key.keys[2], sorted_values[Len(sorted_values)]))
    ELSE LET first_val == CHOOSE v \in selected_values : TRUE
             sorted_values == CategoricalSelection(selected_values, first_val)
         IN IF sorted_values.raised THEN Raised
            ELSE Returned(Put(fltrs, filter_key.keys[1], ListV(sorted_values.l)))

\* the attributes of a selection in the order _process_selection visits them:
\* "x" and "y" first, then the other attributes of the points
AttrOrder == <<"x", "y", "id", "percentEntry", "label">>

RECURSIVE ApplySelections(_, _, _, _, _)
ApplySelections(i, selections, acc, filter_mapping, default_value) ==
    IF i > Len(AttrOrder) \/ acc.raised THEN acc
    ELSE LET attr == AttrOrder[i]
         IN IF attr \in DOMAIN selections /\ attr \in DOMAIN filter_mapping
            THEN CHOOSE out \in
                     {ApplySelections(i + 1, selections, new, filter_mapping, default_value) :
                         new \in {_update_filters_from_selection_values(
                                      acc.f, filter_mapping[attr], selections[attr],
                                      default_value)}} : TRUE
            ELSE ApplySelections(i + 1, selections, acc, filter_mapping, default_value)

\* the selections dict of _process_selection: "x" and "y" always, then the other
\* attributes of the points
Selections(points_selections, range_sel) ==
    [a \in {"x", "y"} \cup DOMAIN points_selections |->
        CASE a = "x" -> (IF "x" \in DOMAIN points_selections
                         THEN points_selections["x"] ELSE {}) \cup range_sel[1]
          [] a = "y" -> (IF "y" \in DOMAIN points_selections
                         THEN points_selections["y"] ELSE {}) \cup range_sel[2]
          [] OTHER -> points_selections[a]]

\* _process_selection
_process_selection(selected_data, current_filters, filter_mapping, x_order, y_order, default_value) ==
    IF /\ selected_data.hasRange
       /\ \/ selected_data.range.hasX /\ RangeRaises(selected_data.range.x, x_order)
          \/ selected_data.range.hasY /\ RangeRaises(selected_data.range.y, y_order)
    THEN Raised
    ELSE CHOOSE out \in
             {ApplySelections(1, selections, Returned(current_filters), filter_mapping,
                              default_value) :
                 selections \in {Selections(
                                    _parse_selected_points(selected_data, x_order, y_order),
                                    _parse_selected_range(selected_data, x_order, y_order))}} :
             TRUE

\* ids: None is the empty id
NoId == ""

\* return values: None, (None, component_filters), (new_store, component_filters),
\* or an exception leaving the function
Suppress == [kind |-> "suppress", store |-> EmptyDict, comp |-> EmptyDict]
Figure(comp) == [kind |-> "figure", store |-> EmptyDict, comp |-> comp]
Update(store, comp) == [kind |-> "update", store |-> store, comp |-> comp]
Raise == [kind |-> "raise", store |-> EmptyDict, comp |-> EmptyDict]

\* lines 113-119: the new filters are returned unless the mapped keys are unchanged
ReturnNew(new, current_filters, crossfilter_keys) ==
    IF new.raised THEN Raise
    ELSE IF _is_unchanged(new.f, current_filters, crossfilter_keys) THEN Suppress
    ELSE Update(new.f, _exclude_keys(new.f, crossfilter_keys))

\* lines 85-119, for the trigger and the payload decoded in lines 66-83
Reconcile(is_self_triggered, is_clear_triggered, is_click_event, data, crossfilter_keys, current_filters, filter_mapping, x_order, y_order, default_value) ==
    IF ~is_self_triggered /\ ~is_clear_triggered
    THEN Figure(_exclude_keys(current_filters, crossfilter_keys))
    ELSE IF is_clear_triggered \/ _is_selection_empty(data)
    THEN IF /\ ~is_clear_triggered
            /\ ~is_click_event
            /\ _is_active(current_filters, crossfilter_keys, default_value)
         THEN Suppress
         ELSE CHOOSE out \in
                  {ReturnNew(new, current_filters, crossfilter_keys) :
                      new \in {Returned(_apply_defaults(current_filters, crossfilter_keys,
                                                        default_value))}} : TRUE
    ELSE CHOOSE out \in
             {ReturnNew(new, current_filters, crossfilter_keys) :
                 new \in {_process_selection(data, current_filters, filter_mapping, x_order,
                                             y_order, default_value)}} : TRUE

update_filters_from_crossfilter_selection(trigger_id, component_id, selected_data, current_filters, filter_mapping, click_data, x_order, y_order, default_value, is_hierarchical, clear_button_id) ==
    CHOOSE out \in
        {Reconcile(trigger_id = component_id,
                   clear_button_id # NoId /\ trigger_id = clear_button_id,
                   ~click_data.none /\ selected_data.none,
                   data,
                   _get_crossfilter_keys(filter_mapping),
                   current_filters, filter_mapping, x_order, y_order, default_value) :
            data \in {IF PayloadTruthy(selected_data) THEN selected_data
                      ELSE IF /\ trigger_id = component_id
                              /\ ~click_data.none /\ selected_data.none
                              /\ is_hierarchical
                           THEN _handle_hierarchical_zoom_out(click_data, default_value)
                           ELSE click_data}} : TRUE

(***************************************************************************)
(* callbacks.py: the four cross-filter charts as the controllers configure *)
(* them, and the interaction payloads of the model.                        *)
(***************************************************************************)
DAY_ORDER == <<StrV("Monday"), StrV("Tuesday"), StrV("Wednesday"), StrV("Thursday"),
               StrV("Friday"), StrV("Saturday"), StrV("Sunday")>>
HOUR_ORDER == [i \in 1..24 |-> IntV(24 - i)]

Dict1(k, v) == [x \in {k} |-> v]
Dict2(k1, v1, k2, v2) == [x \in {k1, k2} |-> IF x = k1 THEN v1 ELSE v2]

TrendlineChart ==
    [name |-> "trendline", component_id |-> "trendline-chart",
     filter_mapping |-> Dict1("x", TwoKeys("start_date", "end_date")),
     x_order |-> NoOrder, y_order |-> NoOrder, is_hierarchical |-> FALSE,
     clear_button_id |-> "clear-trendline-filter", prop |-> "selectedData"]
HeatmapChart ==
    [name |-> "heatmap", component_id |-> "day-hour-heatmap",
     filter_mapping |-> Dict2("x", OneKey("day_of_week"), "y", OneKey("hour")),
     x_order |-> Order(DAY_ORDER), y_order |-> Order(HOUR_ORDER), is_hierarchical |-> FALSE,
     clear_button_id |-> "clear-heatmap-filter", prop |-> "selectedData"]
IncidentTypesChart ==
    [name |-> "incident_types", component_id |-> "incident-types-categorical-chart",
     filter_mapping |-> Dict1("id", OneKey("type_incident")),
     x_order |-> NoOrder, y_order |-> NoOrder, is_hierarchical |-> TRUE,
     clear_button_id |-> NoId, prop |-> "clickData"]
LocationUseChart ==
    [name |-> "location_use", component_id |-> "location-use-categorical-chart",
     filter_mapping |-> Dict1("id", OneKey("location_use_path")),
     x_order |-> NoOrder, y_order |-> NoOrder, is_hierarchical |-> TRUE,
     clear_button_id |-> NoId, prop |-> "clickData"]
Charts == {TrendlineChart, HeatmapChart, IncidentTypesChart, LocationUseChart}
ChartNamed(n) == CHOOSE c \in Charts : c.name = n

\* the id of the filter store, and ctx.triggered_id on the initial call
StoreId == "filters"
Triggers(chart) ==
    {chart.component_id, StoreId, NoId} \cup
    (IF chart.clear_button_id = NoId THEN {} ELSE {chart.clear_button_id})

\* box and point selections on the trendline (dates, with and without a time part)
TrendlineSelections ==
    { RangeXPayload(StrV("2024-01-01"), StrV("2024-03-15")),
      RangeXPayload(StrV("2024-01-01T08:00"), StrV("2024-03-15T12:00")),
      RangeXPayload(StrV("2024-01-01T17:30"), StrV("2024-03-15T12:00")),
      RangeXPayload(StrV("2024-03-15"), StrV("2024-01-01")),
      PointsPayload(<<Dict2("x", StrV("2024-03-15"), "y", IntV(5))>>) }
\* cell selections on the heatmap: by index, by label, by box, outside the axes
HeatmapSelections ==
    { PointsPayload(<<Dict2("x", IntV(0), "y", IntV(0))>>),
      PointsPayload(<<Dict2("x", StrV("Monday"), "y", StrV("5")),
                      Dict2("x", StrV("Friday"), "y", StrV("23"))>>),
      PointsPayload(<<Dict2("x", IntV(9), "y", IntV(30))>>),
      PointsPayload(<<Dict2("x", StrV("5"), "y", StrV("5")),
                      Dict2("x", StrV("Monday"), "y", StrV("23"))>>),
      PointsPayload(<<Dict2("x", TenthsV(-6), "y", TenthsV(226)),
                      Dict2("x", TenthsV(14), "y", TenthsV(25))>>),
      RangeXYPayload(TenthsV(-5), TenthsV(15), TenthsV(225), TenthsV(234)),
      RangeXPayload(TenthsV(22), TenthsV(57)),
      RangeXPayload(TenthsV(25), TenthsV(85)) }
\* selections that hold nothing
EmptySelections == {NonePayload, EmptyPayload, PointsPayload(<<>>)}
\* clicks on a treemap node: a leaf, and the centre node at depth two and one
Node(id, percentEntry) == Dict2("id", id, "percentEntry", percentEntry)
HierarchicalClicks ==
    { PointsPayload(<<Node(PathV(<<"FIRE", "STRUCTURE">>), TenthsV(5))>>),
      PointsPayload(<<Node(PathV(<<"FIRE", "STRUCTURE">>), IntV(1))>>),
      PointsPayload(<<Node(StrV("FIRE"), IntV(1))>>),
      PointsPayload(<<Node(AllV, IntV(1))>>),
      PointsPayload(<<Dict1("id", StrV("RESCUE"))>>) }

SelectedPayloads == EmptySelections \cup TrendlineSelections \cup HeatmapSelections
ClickPayloads == {NonePayload, EmptyPayload} \cup HierarchicalClicks

\* filter stores: the UI defaults with cross-filter keys set as the charts set them
ProtocolStores ==
    { get_ui_defaults,
      [get_ui_defaults EXCEPT !["start_date"] = StrV("2024-01-01"),
                              !["end_date"] = StrV("2024-03-15")],
      [get_ui_defaults EXCEPT !["day_of_week"] = ListV(<<StrV("Monday")>>),
                              !["hour"] = ListV(<<IntV(23)>>)],
      [get_ui_defaults EXCEPT !["type_incident"] = ListV(<<StrV("FIRE")>>),
                              !["department_state"] = StrV("NY")],
      [get_ui_defaults EXCEPT !["location_use_path"] = ListV(<<StrV("RESCUE")>>),
                              !["csst_hazard_only"] = BoolV(TRUE)] }

\* the arguments of one call
Calls ==
    { [trigger_id |-> trg, component_id |-> c.component_id, selected_data |-> sel,
       current_filters |-> st, filter_mapping |-> c.filter_mapping, click_data |-> clk,
       x_order |-> c.x_order, y_order |-> c.y_order, default_value |-> AllV,
       is_hierarchical |-> c.is_hierarchical, clear_button_id |-> c.clear_button_id] :
         <<c, trg, sel, clk, st>> \in
            {q \in Charts \X {StoreId, NoId, "trendline-chart", "day-hour-heatmap",
                              "incident-types-categorical-chart",
                              "location-use-categorical-chart",
                              "clear-trendline-filter", "clear-heatmap-filter"}
                          \X SelectedPayloads \X ClickPayloads \X ProtocolStores :
                q[2] \in Triggers(q[1])} }

\* the function applied to the arguments c
Protocol(c) ==
    update_filters_from_crossfilter_selection(
        c.trigger_id, c.component_id, c.selected_data, c.current_filters,
        c.filter_mapping, c.click_data, c.x_order, c.y_order, c.default_value,
        c.is_hierarchical, c.clear_button_id)

\* the dict objects of a call: the one passed as current_filters, and the one
\* that filters.copy() makes
TheArgument == "current_filters"
\* new_filters = filters, without the copy
NoCopy(obj) == obj
dict_copy(obj) == "new_filters"
\* the object that the assignments new_filters[k] = ... of a call write to:
\* new_filters of _apply_defaults (lines 289-291) on the clear / empty path,
\* new_filters of _process_selection (lines 324-330) on the selection path;
\* the paths that return before write nothing
WrittenObject(c) ==
    LET returned == Protocol(c)
    IN IF returned.kind = "figure" THEN "none"
       ELSE IF /\ returned.kind = "suppress"
               /\ ~(c.clear_button_id # NoId /\ c.trigger_id = c.clear_button_id)
               /\ ~(~c.click_data.none /\ c.selected_data.none)
               /\ _is_active(c.current_filters, _get_crossfilter_keys(c.filter_mapping),
                             c.default_value)
               /\ ~PayloadTruthy(c.selected_data)
       THEN "none"
       ELSE dict_copy(TheArgument)
\* the dict passed as current_filters once a call that returns a new store has
\* returned: it holds the new store when the assignments wrote to it
CurrentFiltersAfter(c) ==
    IF WrittenObject(c) = TheArgument /\ Protocol(c).kind = "update"
    THEN Protocol(c).store
    ELSE c.current_filters

NotReturned == [kind |-> "pending", store |-> EmptyDict, comp |-> EmptyDict]
\* no call made
NoCall == [trigger_id |-> NoId]

\* update_filters_from_crossfilter_selection runs on the drawn arguments
CallReturns ==
    /\ ret = NotReturned
    /\ ret' = Protocol(call)
    /\ UNCHANGED <<call, authVars, typeVars, libVars, moreVars, dashVars>>

(***************************************************************************)
(* callbacks.py and layout.py: the dashboard.  The filter store, the nine  *)
(* filter controls, the charts' selectedData / clickData, the clear        *)
(* buttons, the memoized controllers.  A callback is requested when one of *)
(* its inputs changes value; a requested callback runs as one step.        *)
(***************************************************************************)
\* the filter controls of update_filter_store, with the store key each one sets
UiControls ==
    << [id |-> "csst-hazard-filter",           key |-> "csst_hazard_only"],
       [id |-> "electric-hazard-filter",       key |-> "electric_hazard_only"],
       [id |-> "powergen-hazard-filter",       key |-> "powergen_hazard_only"],
       [id |-> "medical-oxygen-hazard-filter", key |-> "medical_oxygen_hazard_only"],
       [id |-> "aid-direction-filter",         key |-> "aid_direction"],
       [id |-> "department-state-filter",      key |-> "department_state"],
       [id |-> "neris-id-dept-filter",         key |-> "neris_id_dept"],
       [id |-> "start-date-filter",            key |-> "start_date"],
       [id |-> "end-date-filter",              key |-> "end_date"] >>
ControlIds == {UiControls[i].id : i \in 1..Len(UiControls)}
ControlOf(key) == (CHOOSE i \in 1..Len(UiControls) : UiControls[i].key = key)
ChecklistKeys == {"csst_hazard_only", "electric_hazard_only", "powergen_hazard_only",
                  "medical_oxygen_hazard_only"}
DropdownKeys == {"aid_direction", "department_state", "neris_id_dept"}

\* layout.py: the controls' values in the served layout
LayoutUi ==
    [c \in ControlIds |->
        CASE c \in {"csst-hazard-filter", "electric-hazard-filter",
                    "powergen-hazard-filter", "medical-oxygen-hazard-filter"} -> ListV(<<>>)
          [] c \in {"aid-direction-filter", "department-state-filter"} -> AllV
          [] OTHER -> NoneV]

\* update_filter_store: the store it returns for control values u
update_filter_store(u, current_filters) ==
    LET base == IF DOMAIN current_filters # {} THEN current_filters ELSE get_all_defaults
        val(key) ==
            LET v == u[UiControls[ControlOf(key)].id]
            IN CASE key \in ChecklistKeys ->
                        BoolV(InList(StrV(key), IF Truthy(v) THEN v.l ELSE <<>>))
                 [] key \in DropdownKeys -> IF Truthy(v) THEN v ELSE AllV
                 [] OTHER -> v
        keys == {UiControls[i].key : i \in 1..Len(UiControls)}
    IN [k \in (DOMAIN base) \cup keys |-> IF k \in keys THEN val(k) ELSE base[k]]

\* get_clearable_ui_values that hands every store value over as it is
ValuesAsStored(fltrs, filter_keys) ==
    [k \in filter_keys |-> IF k \in DOMAIN fltrs THEN fltrs[k] ELSE AllV]

\* FilterRegistry.get_clearable_ui_values: store values as control values
get_clearable_ui_values(fltrs, filter_keys) ==
    LET clearable == {i \in ConfigPositions : RegistryConfigs[i].clearable}
        last(k) == CHOOSE i \in clearable :
                      /\ RegistryConfigs[i].filter_key = k
                      /\ \A j \in clearable : RegistryConfigs[j].filter_key = k => j <= i
        ui_value(k) ==
            LET filter_type == resolve_filter_type(RegistryConfigs[last(k)])
                store_value == IF k \in DOMAIN fltrs THEN fltrs[k]
                               ELSE filter_type.default_value
            IN IF filter_type.name = "boolean"
               THEN (IF Truthy(store_value) THEN ListV(<<StrV(k)>>) ELSE ListV(<<>>))
               ELSE store_value
    IN [k \in filter_keys |-> ui_value(k)]

\* sync_filters_to_ui: the control values it returns
sync_filters_to_ui(fltrs) ==
    LET keys == {UiControls[i].key : i \in 1..Len(UiControls)}
        values == get_clearable_ui_values(fltrs, keys)
    IN [c \in ControlIds |->
           values[UiControls[CHOOSE i \in 1..Len(UiControls) : UiControls[i].id = c].key]]

\* str(v)[:10] for the strings of the model
First10(v) ==
    IF v.tag = "str" /\ Len(v.s) = 1
    THEN CASE v.s[1] \in {"2024-01-01T08:00", "2024-01-01T17:30"} -> StrV("2024-01-01")
           [] v.s[1] = "2024-03-15T12:00" -> StrV("2024-03-15")
           [] OTHER -> v
    ELSE v

\* what a controller returns: (no_update, no_update), (no_update, fig), (store, no_update)
NoUpdate == [kind |-> "no_update", store |-> EmptyDict]
FigureOnly == [kind |-> "figure", store |-> EmptyDict]
StoreWrite(s) == [kind |-> "write", store |-> s]
Failed == [kind |-> "error", store |-> EmptyDict]

\* the call a controller makes for its chart
ControllerCall(chart, trigger, payload, current_filters) ==
    [trigger_id |-> trigger, component_id |-> chart.component_id,
     selected_data |-> IF chart.prop = "selectedData" THEN payload ELSE NonePayload,
     current_filters |-> current_filters, filter_mapping |-> chart.filter_mapping,
     click_data |-> IF chart.prop = "clickData" THEN payload ELSE NonePayload,
     x_order |-> chart.x_order, y_order |-> chart.y_order, default_value |-> AllV,
     is_hierarchical |-> chart.is_hierarchical, clear_button_id |-> chart.clear_button_id]

\* lines 319-324 of trendline_controller: dates are cut to YYYY-MM-DD
TruncateDates(new_store_filters) ==
    LET cut(s, k) == IF Truthy(Get(s, k)) /\ s[k] # AllV
                     THEN [s EXCEPT ![k] = First10(s[k])] ELSE s
    IN IF DOMAIN new_store_filters # {}
       THEN cut(cut(new_store_filters, "start_date"), "end_date")
       ELSE new_store_filters

\* the routing of a controller: None, (None, filters) or (new_store, filters)
TrendlineRouting(new_filter_sets) ==
    CASE new_filter_sets.kind = "raise" -> Failed
      [] new_filter_sets.kind = "suppress" -> NoUpdate
      [] new_filter_sets.kind = "figure" -> FigureOnly
      [] OTHER -> StoreWrite(TruncateDates(new_filter_sets.store))
Routing(new_filter_sets) ==
    CASE new_filter_sets.kind = "raise" -> Failed
      [] new_filter_sets.kind = "suppress" -> NoUpdate
      [] new_filter_sets.kind = "figure" -> FigureOnly
      [] OTHER -> StoreWrite(new_filter_sets.store)

\* trendline_controller: the dates are cut after the protocol has run
trendline_controller(trigger, selected_data, current_filters) ==
    CHOOSE out \in {TrendlineRouting(new_filter_sets) :
                        new_filter_sets \in {Protocol(ControllerCall(TrendlineChart, trigger,
                                                                     selected_data,
                                                                     current_filters))}} : TRUE

\* heatmap_controller and the two memoized hierarchical controllers
plain_controller(chart, trigger, payload, current_filters) ==
    CHOOSE out \in {Routing(new_filter_sets) :
                        new_filter_sets \in {Protocol(ControllerCall(chart, trigger, payload,
                                                                     current_filters))}} : TRUE

ControllerBody(chart, trigger, payload, current_filters) ==
    IF chart.name = "trendline"
    THEN trendline_controller(trigger, payload, current_filters)
    ELSE plain_controller(chart, trigger, payload, current_filters)

\* cache.memoize on _incident_types_categorical_controller_memoized and
\* _location_use_controller_memoized: the key is made of the function and its
\* arguments (store_input, click_data, current_filters, trigger)
NoInvocation == [fn |-> "none", args |-> <<>>, hit |-> FALSE, out |-> NoUpdate]
NoEntries == [entries |-> {}, last |-> NoInvocation]
\* the key made of the first three arguments only
KeyWithoutTrigger(store_input, click_data, current_filters, trigger) ==
    <<store_input, click_data, current_filters, NoId>>
make_cache_key(store_input, click_data, current_filters, trigger) ==
    <<store_input, click_data, current_filters, trigger>>
\* the decorated function: the cached value on a hit; on a miss the body runs
\* and its return value is cached (an exception is not)
HierarchicalMemoized(chart, store_input, click_data, current_filters, trigger) ==
    LET key == make_cache_key(store_input, click_data, current_filters, trigger)
        args == <<store_input, click_data, current_filters, trigger>>
        found == {e \in hcache.entries : e.fn = chart.name /\ e.key = key}
    IN IF found # {}
       THEN [hcache EXCEPT !.last = [fn |-> chart.name, args |-> args, hit |-> TRUE,
                                     out |-> (CHOOSE e \in found : TRUE).out]]
       ELSE LET out == plain_controller(chart, trigger, click_data, current_filters)
            IN [entries |-> IF out.kind = "error" THEN hcache.entries
                            ELSE hcache.entries \cup {[fn |-> chart.name, key |-> key, out |-> out]},
                last |-> [fn |-> chart.name, args |-> args, hit |-> FALSE, out |-> out]]
\* the stores and clicks the two callbacks are invoked with, and the cache size
MemoStores ==
    { get_ui_defaults,
      [get_ui_defaults EXCEPT !["type_incident"] = ListV(<<StrV("FIRE")>>),
                              !["department_state"] = StrV("NY")],
      [get_ui_defaults EXCEPT !["location_use_path"] = ListV(<<StrV("RESCUE")>>),
                              !["csst_hazard_only"] = BoolV(TRUE)] }
MemoClicks ==
    { NonePayload,
      PointsPayload(<<Node(StrV("FIRE"), IntV(1))>>),
      PointsPayload(<<Dict1("id", StrV("RESCUE"))>>) }
\* incident_types_categorical_controller / location_use_controller: Input and
\* State "filters" carry the same store; ctx.triggered_id is the chart, the store,
\* or None on the initial call
HierarchicalController(chart) ==
    \E store \in MemoStores, click_data \in MemoClicks, trigger \in Triggers(chart) :
        /\ \/ Cardinality(hcache.entries) < MaxEntries
           \/ \E e \in hcache.entries :
                 e.fn = chart.name /\ e.key = make_cache_key(store, click_data, store, trigger)
        /\ hcache' = HierarchicalMemoized(chart, store, click_data, store, trigger)
        /\ UNCHANGED <<zoom, authCall, secrets, request, authVars, protoVars, typeVars, libVars, dashVars>>
IncidentTypesControllerMemoized == HierarchicalController(IncidentTypesChart)
LocationUseControllerMemoized == HierarchicalController(LocationUseChart)

\* zooming out of a treemap: the chart, the path its key held at the start, the
\* store, and the kind of each click's return value
NoZoom == [chart |-> "none", start |-> <<>>, store |-> EmptyDict, results |-> <<>>]
HierarchicalKey(chart) == chart.filter_mapping["id"].keys[1]
\* the id of the treemap's centre node: the path the key holds, "all" at the root
CentreId(chart, store) ==
    IF store[HierarchicalKey(chart)].tag = "list"
    THEN store[HierarchicalKey(chart)].l[1]
    ELSE store[HierarchicalKey(chart)]
\* a click on the centre node (percentEntry 1.0) runs the chart's controller,
\* triggered by the chart, with the store as Input and State
ZoomOutClick ==
    /\ zoom.chart # "none"
    /\ Len(zoom.results) <= Len(zoom.start)
    /\ LET chart == ChartNamed(zoom.chart)
           click_data == PointsPayload(<<Node(CentreId(chart, zoom.store), IntV(1))>>)
           after == HierarchicalMemoized(chart, zoom.store, click_data, zoom.store,
                                         chart.component_id)
       IN /\ hcache' = after
          /\ zoom' = [zoom EXCEPT
                         !.store = IF after.last.out.kind = "write"
                                   THEN after.last.out.store ELSE @,
                         !.results = Append(@, after.last.out.kind)]
    /\ UNCHANGED <<authCall, secrets, request, authVars, protoVars, typeVars, libVars, dashVars>>

\* the update wave: what the user did last, and how many times callbacks have
\* changed the store since (counted up to MaxChanges)
Started(event) == [event |-> event, changes |-> 0]
Counted(new_store) ==
    IF new_store # filters /\ wave.changes < MaxChanges
    THEN [wave EXCEPT !.changes = @ + 1] ELSE wave

\* a callback request: the callback and ctx.triggered_id
Request(cb, trigger) == [cb |-> cb, trigger |-> trigger]
\* the callbacks with Input("filters", "data") that write the store or the controls
StoreDependents ==
    {Request(c.name, StoreId) : c \in Charts} \cup {Request("sync_filters_to_ui", StoreId)}
\* the callbacks with Input(<button>, "n_clicks")
ButtonIds == {"clear-trendline-filter", "clear-heatmap-filter", "clear-filters-button"}
ButtonListeners(b) ==
    CASE b = "clear-trendline-filter" ->
            {Request("trendline", b), Request("clear_trendline_filter", b)}
      [] b = "clear-heatmap-filter" -> {Request("heatmap", b)}
      [] OTHER -> {Request("clear_all_filters", b)}

\* cache.memoize: the key is the function and its arguments.  trendline_controller
\* and heatmap_controller are memoized on (store_input, selected_data,
\* clear_n_clicks, current_filters), and their body reads ctx.triggered_id, which
\* is not an argument.  The two hierarchical controllers are memoized on
\* (store_input, click_data, current_filters, trigger), every value their body
\* reads, so for them a hit returns what the body returns: memo keeps the entries
\* of trendline_controller and heatmap_controller only.
KeyLacksTrigger(chart) == ~chart.is_hierarchical
MemoKey(chart, payload, store) ==
    [store |-> store, payload |-> payload,
     n_clicks |-> IF chart.clear_button_id = NoId THEN 0 ELSE nClicks[chart.clear_button_id]]
Cached(chart, key) == {e \in memo : e.fn = chart.name /\ e.key = key}

\* the decorated function: the cached result on a hit, the body's result otherwise
Memoized(chart, key, trigger, payload, store) ==
    IF KeyLacksTrigger(chart) /\ Cached(chart, key) # {}
    THEN [hit |-> TRUE, key |-> key, out |-> (CHOOSE e \in Cached(chart, key) : TRUE).out]
    ELSE [hit |-> FALSE, key |-> key, out |-> ControllerBody(chart, trigger, payload, store)]

\* a store value returned by a callback: the store's dependents are requested
\* when the value changes
StoreRequests(new_store) == IF new_store # filters THEN StoreDependents ELSE {}

\* lastRun when the step taken last was not a controller writing the store
NoRun == [cb |-> "none", trigger |-> NoId, read |-> EmptyDict, wrote |-> FALSE, hit |-> FALSE]

\* the renderer applies what the controller returned
ApplyResult(chart, req, r) ==
    /\ memo' = IF r.hit \/ r.out.kind = "error" \/ ~KeyLacksTrigger(chart) THEN memo
               ELSE memo \cup {[fn |-> chart.name, key |-> r.key, out |-> r.out]}
    /\ filters' = IF r.out.kind = "write" THEN r.out.store ELSE filters
    /\ pending' = (pending \ {req}) \cup
                  (IF r.out.kind = "write" THEN StoreRequests(r.out.store) ELSE {})
    /\ lastRun' = IF r.out.kind = "write"
                  THEN [cb |-> chart.name, trigger |-> req.trigger, read |-> filters,
                        wrote |-> TRUE, hit |-> r.hit]
                  ELSE NoRun
    /\ wave' = IF r.out.kind = "write" THEN Counted(r.out.store) ELSE wave

\* one run of a cross-filter controller for the request req
RunController(chart, req) ==
    /\ \E r \in {Memoized(chart, MemoKey(chart, chartData[chart.name], filters),
                          req.trigger, chartData[chart.name], filters)} :
            ApplyResult(chart, req, r)
    /\ UNCHANGED <<ui, chartData, nClicks, interactions, inflight, authVars, protoVars, typeVars, libVars, moreVars>>

TrendlineController ==
    \E req \in pending : req.cb = "trendline" /\ RunController(TrendlineChart, req)

HeatmapController ==
    \E req \in pending : req.cb = "heatmap" /\ RunController(HeatmapChart, req)

IncidentTypesController ==
    \E req \in pending : req.cb = "incident_types" /\ RunController(IncidentTypesChart, req)

LocationUseController ==
    \E req \in pending : req.cb = "location_use" /\ RunController(LocationUseChart, req)

UpdateFilterStore ==
    \E req \in pending :
        /\ req.cb = "update_filter_store"
        /\ LET new_store == update_filter_store(ui, filters)
           IN /\ filters' = new_store
              /\ pending' = (pending \ {req}) \cup StoreRequests(new_store)
              /\ wave' = Counted(new_store)
        /\ lastRun' = NoRun
        /\ UNCHANGED <<ui, chartData, nClicks, memo, interactions, inflight, authVars, protoVars, typeVars, libVars, moreVars>>

SyncFiltersToUi ==
    \E req \in pending :
        /\ req.cb = "sync_filters_to_ui"
        /\ ui' = sync_filters_to_ui(filters)
        /\ pending' = (pending \ {req}) \cup
                      (IF ui' # ui THEN {Request("update_filter_store", "controls")} ELSE {})
        /\ lastRun' = NoRun
        /\ UNCHANGED <<filters, chartData, nClicks, memo, interactions, inflight, wave,
                       authVars, protoVars, typeVars, libVars, moreVars>>

\* a chart property set by a callback: the chart's controller is requested
\* when the value changes
ChartRequests(new_data) ==
    {Request(c.name, c.component_id) : c \in {x \in Charts : new_data[x.name] # chartData[x.name]}}

\* clear_trendline_filter for n_clicks > 0: the store it returns
clear_trendline_filter(current_filters) ==
    LET base == IF DOMAIN current_filters # {} THEN current_filters ELSE get_all_defaults
    IN Put(Put(base, "start_date", Get(get_all_defaults, "start_date")),
           "end_date", Get(get_all_defaults, "end_date"))

\* clear_all_filters that returns the store as it is
NothingCleared(current_filters) == current_filters

\* clear_all_filters for n_clicks > 0: the store it returns
clear_all_filters(current_filters) ==
    LET base == IF DOMAIN current_filters # {} THEN current_filters ELSE get_all_defaults
    IN [k \in (DOMAIN base) \cup DOMAIN get_clearable_defaults |->
           IF k \in DOMAIN get_clearable_defaults THEN get_clearable_defaults[k] ELSE base[k]]

ClearTrendlineFilter ==
    \E req \in pending :
        /\ req.cb = "clear_trendline_filter"
        /\ IF nClicks["clear-trendline-filter"] = 0
           THEN /\ pending' = pending \ {req}
                /\ UNCHANGED <<filters, chartData, wave>>
           ELSE LET new_store == clear_trendline_filter(filters)
                    new_data == [chartData EXCEPT !["trendline"] = NonePayload]
                IN /\ filters' = new_store
                   /\ chartData' = new_data
                   /\ wave' = Counted(new_store)
                   /\ pending' = (pending \ {req}) \cup StoreRequests(new_store)
                                    \cup ChartRequests(new_data)
        /\ lastRun' = NoRun
        /\ UNCHANGED <<ui, nClicks, memo, interactions, inflight, authVars, protoVars, typeVars, libVars, moreVars>>

ClearAllFilters ==
    \E req \in pending :
        /\ req.cb = "clear_all_filters"
        /\ IF nClicks["clear-filters-button"] = 0
           THEN /\ pending' = pending \ {req}
                /\ UNCHANGED <<filters, chartData, wave>>
           ELSE LET new_store == clear_all_filters(filters)
                    new_data == [c \in DOMAIN chartData |-> NonePayload]
                IN /\ filters' = new_store
                   /\ chartData' = new_data
                   /\ wave' = Counted(new_store)
                   /\ pending' = (pending \ {req}) \cup StoreRequests(new_store)
                                    \cup ChartRequests(new_data)
        /\ lastRun' = NoRun
        /\ UNCHANGED <<ui, nClicks, memo, interactions, inflight, authVars, protoVars, typeVars, libVars, moreVars>>

\* the user's interactions; the user acts on an idle page
Idle == pending = {}
UserControlValues ==
    [c \in {"start-date-filter", "end-date-filter"} |->
        IF c = "start-date-filter" THEN {NoneV, StrV("2024-01-01")}
                                   ELSE {NoneV, StrV("2024-03-15")}]
UserPayloads ==
    [c \in {x.name : x \in Charts} |->
        CASE c = "trendline" ->
                {RangeXPayload(StrV("2024-01-01T08:00"), StrV("2024-03-15T12:00")),
                 RangeXPayload(StrV("2024-01-01T17:30"), StrV("2024-03-15T12:00"))}
          [] c = "heatmap" ->
                {PointsPayload(<<Dict2("x", IntV(0), "y", IntV(0))>>)}
          [] c = "incident_types" ->
                {PointsPayload(<<Node(PathV(<<"FIRE", "STRUCTURE">>), IntV(1))>>)}
          [] OTHER -> {PointsPayload(<<Dict1("id", StrV("RESCUE"))>>)}]

UserSetsControl ==
    /\ interactions < MaxInteractions
    /\ Idle
    /\ \E c \in DOMAIN UserControlValues :
         \E v \in UserControlValues[c] \ {ui[c]} :
            /\ ui' = [ui EXCEPT ![c] = v]
            /\ pending' = pending \cup {Request("update_filter_store", "controls")}
    /\ wave' = Started("set")
    /\ interactions' = interactions + 1
    /\ lastRun' = NoRun
    /\ UNCHANGED <<filters, chartData, nClicks, memo, inflight, authVars, protoVars, typeVars, libVars, moreVars>>

UserSelects ==
    /\ interactions < MaxInteractions
    /\ Idle
    /\ \E chart \in Charts :
         \E p \in UserPayloads[chart.name] \ {chartData[chart.name]} :
            /\ chartData' = [chartData EXCEPT ![chart.name] = p]
            /\ pending' = pending \cup {Request(chart.name, chart.component_id)}
    /\ wave' = Started("select")
    /\ interactions' = interactions + 1
    /\ lastRun' = NoRun
    /\ UNCHANGED <<filters, ui, nClicks, memo, inflight, authVars, protoVars, typeVars, libVars, moreVars>>

UserClicksButton ==
    /\ interactions < MaxInteractions
    /\ Idle
    /\ \E b \in ButtonIds :
         /\ nClicks' = [nClicks EXCEPT ![b] = @ + 1]
         /\ pending' = pending \cup ButtonListeners(b)
    /\ wave' = Started("click")
    /\ interactions' = interactions + 1
    /\ lastRun' = NoRun
    /\ UNCHANGED <<filters, ui, chartData, memo, inflight, authVars, protoVars, typeVars, libVars, moreVars>>


(***************************************************************************)
(* Callbacks served concurrently.  The renderer sends a callback's inputs  *)
(* and State("filters", "data") in the request, so requests sent together  *)
(* carry the same store snapshot; the server answers them in any order and *)
(* the renderer applies each answer as it arrives.                         *)
(***************************************************************************)
Unanswered == [kind |-> "unanswered", store |-> EmptyDict]
\* a request as sent: ctx.triggered_id, the chart payload and the State it carries
Sent(cb, trigger, payload, state) ==
    [cb |-> cb, trigger |-> trigger, payload |-> payload, state |-> state,
     out |-> Unanswered]

\* the events that start requests: a selection or click on a chart, a click on
\* a button, a date picked
SelectEvent(chart, p) == [kind |-> "select", id |-> chart.component_id, cb |-> chart.name, payload |-> p, value |-> NoneV]
ClickEvent(b) == [kind |-> "click", id |-> b, cb |-> "", payload |-> NonePayload, value |-> NoneV]
SetEvent(c, v) == [kind |-> "set", id |-> c, cb |-> "update_filter_store", payload |-> NonePayload, value |-> v]
SelectEvents == {SelectEvent(chart, p) : <<chart, p>> \in {q \in Charts \X UNION {UserPayloads[n] : n \in DOMAIN UserPayloads} : q[2] \in UserPayloads[q[1].name]}}
Events ==
    SelectEvents \cup {ClickEvent(b) : b \in ButtonIds}
                 \cup {SetEvent(c, v) : <<c, v>> \in {q \in (DOMAIN UserControlValues) \X {StrV("2024-01-01"), StrV("2024-03-15")} : q[2] \in UserControlValues[q[1]]}}
\* one event, or selections made on two different charts before either is answered
EventSets ==
    {{e} : e \in Events} \cup
    {{e1, e2} : <<e1, e2>> \in {q \in SelectEvents \X SelectEvents : q[1].cb # q[2].cb}}

\* the requests an event starts, carrying the store as it is
RequestsOf(e, state) ==
    CASE e.kind = "select" -> {Sent(e.cb, e.id, e.payload, state)}
      [] e.kind = "set" -> {Sent(e.cb, "controls", NonePayload, state)}
      [] OTHER -> {Sent(r.cb, r.trigger, NonePayload, state) : r \in ButtonListeners(e.id)}

\* the renderer applies an answer: the store and chart properties it sets, and
\* the callbacks requested by the values that changed
WaveApply(r, out, new_data) ==
    /\ inflight' = (inflight \ {r}) \cup {[r EXCEPT !.out = out]}
    /\ filters' = IF out.kind = "write" THEN out.store ELSE filters
    /\ chartData' = new_data
    /\ pending' = pending \cup ChartRequests(new_data) \cup
                  (IF out.kind = "write" THEN StoreRequests(out.store) ELSE {})
    /\ lastRun' = NoRun
    /\ wave' = IF out.kind = "write" THEN Counted(out.store) ELSE wave
    /\ UNCHANGED <<ui, nClicks, interactions, authVars, protoVars, typeVars, libVars, moreVars>>

WaveMemo(chart, res) ==
    /\ memo' = IF res.hit \/ res.out.kind = "error" \/ ~KeyLacksTrigger(chart) THEN memo
               ELSE memo \cup {[fn |-> chart.name, key |-> res.key, out |-> res.out]}

\* a cross-filter controller answers a request with the State the request carries
WaveController ==
    \E r \in inflight :
        /\ r.out = Unanswered
        /\ r.cb \in {c.name : c \in Charts}
        /\ \E res \in {Memoized(ChartNamed(r.cb),
                                 MemoKey(ChartNamed(r.cb), r.payload, r.state),
                                 r.trigger, r.payload, r.state)} :
              /\ WaveMemo(ChartNamed(r.cb), res)
              /\ WaveApply(r, res.out, chartData)

WaveUpdateFilterStore ==
    \E r \in inflight :
        /\ r.out = Unanswered
        /\ r.cb = "update_filter_store"
        /\ WaveApply(r, StoreWrite(update_filter_store(ui, r.state)), chartData)
        /\ UNCHANGED memo

WaveClearTrendlineFilter ==
    \E r \in inflight :
        /\ r.out = Unanswered
        /\ r.cb = "clear_trendline_filter"
        /\ IF nClicks["clear-trendline-filter"] = 0
           THEN WaveApply(r, NoUpdate, chartData)
           ELSE WaveApply(r, StoreWrite(clear_trendline_filter(r.state)),
                          [chartData EXCEPT !["trendline"] = NonePayload])
        /\ UNCHANGED memo

WaveClearAllFilters ==
    \E r \in inflight :
        /\ r.out = Unanswered
        /\ r.cb = "clear_all_filters"
        /\ IF nClicks["clear-filters-button"] = 0
           THEN WaveApply(r, NoUpdate, chartData)
           ELSE WaveApply(r, StoreWrite(clear_all_filters(r.state)),
                          [c \in DOMAIN chartData |-> NonePayload])
        /\ UNCHANGED memo


(***************************************************************************)
(* data.py / aggregations.py: query methods of a relation.  The rows are   *)
(* the rows of the parquet file that satisfy the relation's conditions; a  *)
(* cell is NULL or an integer.                                             *)
(***************************************************************************)
Null == [null |-> TRUE, n |-> 0]
Num(i) == [null |-> FALSE, n |-> i]

\* no query method has been called
NoQuery == [method |-> "", rows |-> <<>>, arg |-> <<>>, done |-> FALSE, result |-> <<>>]
\* the call of a method on a relation with these rows, not yet answered
Asked(method, rows, arg) ==
    [method |-> method, rows |-> rows, arg |-> arg, done |-> FALSE, result |-> <<>>]

\* the non-NULL values of a column, in row order
RECURSIVE NonNull(_, _)
NonNull(rows, column) ==
    IF rows = <<>> THEN <<>>
    ELSE (IF Head(rows)[column].null THEN <<>> ELSE <<Head(rows)[column].n>>)
            \o NonNull(Tail(rows), column)

RECURSIVE SumOf(_)
SumOf(ns) == IF ns = <<>> THEN 0 ELSE Head(ns) + SumOf(Tail(ns))

RECURSIVE Ascending(_)
\* the numbers of a sequence in ascending order
Ascending(ns) ==
    IF ns = <<>> THEN <<>>
    ELSE LET i == CHOOSE i \in 1..Len(ns) : \A j \in 1..Len(ns) : ns[i] <= ns[j]
         IN <<ns[i]>> \o Ascending(SubSeq(ns, 1, i - 1) \o SubSeq(ns, i + 1, Len(ns)))

\* SUM(column): NULL when no row has a value
SqlSum(rows, column) ==
    IF NonNull(rows, column) = <<>> THEN Null ELSE Num(SumOf(NonNull(rows, column)))

\* CAST(COALESCE(QUANTILE_CONT(column, 0.9), 0) AS BIGINT): the value at
\* position 0.9 * (n - 1) of the ascending values, interpolated, rounded
SqlP90(rows, column) ==
    LET v == Ascending(NonNull(rows, column))
        pos == 9 * (Len(v) - 1)
        lo == pos \div 10 + 1
        hi == IF lo < Len(v) THEN lo + 1 ELSE lo
    IN IF v = <<>> THEN Num(0)
       ELSE Num(PyRound(10 * v[lo] + (pos % 10) * (v[hi] - v[lo])))

\* AggregateStat(aggregation_expr, column_alias, default_value, value_extractor)
AggregateStat(fn, column, alias, default, extractor) ==
    [fn |-> fn, column |-> column, column_alias |-> alias, default_value |-> default,
     value_extractor |-> extractor]

\* tables.py INCIDENTS_SUMMARY_CARD_STATS
INCIDENTS_SUMMARY_CARD_STATS ==
    << AggregateStat("COUNT", "*", "total_count", <<"0">>, "default"),
       AggregateStat("SUM", "unit_response_count", "total_unit_responses", <<"0">>, "default"),
       AggregateStat("P90", "duration", "p90_duration", <<"0", "m ", "0", "s">>,
                     "format_seconds_to_minutes_seconds"),
       AggregateStat("SUM", "csst_hazard_flag", "csst_count", <<"0">>, "default"),
       AggregateStat("SUM", "electric_hazard_flag", "electric_count", <<"0">>, "default"),
       AggregateStat("SUM", "powergen_hazard_flag", "powergen_count", <<"0">>, "default"),
       AggregateStat("SUM", "medical_oxygen_hazard_flag", "medical_oxygen_count", <<"0">>,
                     "default"),
       AggregateStat("SUM", "displacement_count", "total_displacements", <<"0">>, "default"),
       AggregateStat("SUM", "rescue_animal", "total_rescue_animals", <<"0">>, "default"),
       AggregateStat("SUM", "exposure_count", "total_exposures", <<"0">>, "default") >>

StatAliases == {INCIDENTS_SUMMARY_CARD_STATS[i].column_alias :
                    i \in 1..Len(INCIDENTS_SUMMARY_CARD_STATS)}
StatOf(alias) ==
    INCIDENTS_SUMMARY_CARD_STATS[CHOOSE i \in 1..Len(INCIDENTS_SUMMARY_CARD_STATS) :
                                    INCIDENTS_SUMMARY_CARD_STATS[i].column_alias = alias]

\* the value of one aggregation expression over the rows
AggregateValue(stat, rows) ==
    CASE stat.fn = "COUNT" -> Num(Len(rows))
      [] stat.fn = "SUM" -> SqlSum(rows, stat.column)
      [] OTHER -> SqlP90(rows, stat.column)

\* the values of the aggregation expressions over the rows, by alias
AggregateRow(rows) == [a \in StatAliases |-> AggregateValue(StatOf(a), rows)]

\* f"{n:,}"
RECURSIVE Commas(_)
Commas(n) ==
    IF n < 0 THEN <<"-">> \o Commas(0 - n)
    ELSE IF n < 1000 THEN <<ToString(n)>>
    ELSE Commas(n \div 1000)
            \o <<",", ToString((n % 1000) \div 100), ToString((n % 100) \div 10),
                 ToString(n % 10)>>

\* a value of the frame: None, NaN or a number
FrameNone == [kind |-> "None", n |-> 0]
FrameNaN == [kind |-> "NaN", n |-> 0]
FrameNum(i) == [kind |-> "num", n |-> i]

\* self.aggregate(*expressions).iloc[0]: the row of the frame, by alias; missing
\* is the value pandas holds for a NULL of the engine, None or NaN
FrameRow(rows, missing) ==
    [a \in StatAliases |->
        IF AggregateRow(rows)[a].null THEN missing ELSE FrameNum(AggregateRow(rows)[a].n)]

\* pandas.isna
isna(value) == value.kind \in {"None", "NaN"}

\* _default_string_extractor without the test for a missing value
MissingShown(value, default) ==
    IF value.kind # "num" THEN <<value.kind>> ELSE Commas(value.n)

_default_string_extractor(value, default) ==
    IF value = FrameNone \/ isna(value) THEN default ELSE Commas(value.n)

\* utils.format_seconds_to_minutes_seconds: None is tested for; for NaN
\* int(float(seconds)) raises ValueError, which is caught
format_seconds_to_minutes_seconds(seconds, default) ==
    IF seconds = FrameNone THEN default
    ELSE IF seconds.kind = "NaN" THEN default
    ELSE <<ToString(seconds.n \div 60), "m ", ToString(seconds.n % 60), "s">>

\* AggregateStatGroup.get_defaults
get_defaults == [a \in StatAliases |-> StatOf(a).default_value]

\* AggregateStatGroup.extract_values
extract_values(row) ==
    [a \in StatAliases |->
        IF StatOf(a).value_extractor = "default"
        THEN _default_string_extractor(row[a], StatOf(a).default_value)
        ELSE format_seconds_to_minutes_seconds(row[a], StatOf(a).default_value)]

\* _DuckParquetRelationBase._calculate_aggregate_stats
_calculate_aggregate_stats(rows, missing) ==
    IF Len(rows) = 0 THEN get_defaults ELSE extract_values(FrameRow(rows, missing))

\* IncidentsRelation.get_summary_card_stats: the texts of the cards, in order
CardOrder ==
    << "total_count", "total_unit_responses", "p90_duration", "csst_count",
       "electric_count", "powergen_count", "medical_oxygen_count", "casualty_rescues",
       "total_displacements", "total_rescue_animals", "total_exposures" >>
get_summary_card_stats(rows, missing, casualty_rescue_count) ==
    LET stats == _calculate_aggregate_stats(rows, missing)
    IN [i \in 1..Len(CardOrder) |->
            IF CardOrder[i] = "casualty_rescues" THEN Commas(casualty_rescue_count)
            ELSE IF CardOrder[i] \in DOMAIN stats THEN stats[CardOrder[i]]
            ELSE <<"0">>]

\* rows of the incidents file, by the columns the statistics read
StatColumns ==
    {"unit_response_count", "duration", "csst_hazard_flag", "electric_hazard_flag",
     "powergen_hazard_flag", "medical_oxygen_hazard_flag", "displacement_count",
     "rescue_animal", "exposure_count"}
StatRows ==
    { [c \in StatColumns |-> Null],
      [c \in StatColumns |->
          CASE c = "unit_response_count" -> Num(3)
            [] c = "duration" -> Num(95)
            [] c \in {"csst_hazard_flag", "medical_oxygen_hazard_flag"} -> Num(1)
            [] OTHER -> Num(0)],
      [c \in StatColumns |->
          CASE c = "unit_response_count" -> Num(1234)
            [] c = "duration" -> Num(754)
            [] c = "displacement_count" -> Null
            [] OTHER -> Num(1)],
      [c \in StatColumns |->
          CASE c = "unit_response_count" -> Null
            [] c = "duration" -> Num(30)
            [] OTHER -> Num(0)] }

\* the rows a relation's conditions let through: up to MaxRows of them
MaxRows == 3
RowLists(S) == UNION {[1..n -> S] : n \in 0..MaxRows}

\* the calls of get_summary_card_stats
StatQueries ==
    { Asked("get_summary_card_stats", rows,
            [missing |-> missing, casualty_rescue_count |-> count]) :
        rows \in RowLists(StatRows), missing \in {FrameNone, FrameNaN},
        count \in {0, 1500} }

GetSummaryCardStats ==
    /\ query.method = "get_summary_card_stats"
    /\ ~query.done
    /\ query' = [query EXCEPT
                    !.done = TRUE,
                    !.result = [stats |-> _calculate_aggregate_stats(query.rows,
                                                                     query.arg.missing),
                                cards |-> get_summary_card_stats(
                                              query.rows, query.arg.missing,
                                              query.arg.casualty_rescue_count)]]
    /\ UNCHANGED <<registry, manager, plan, authVars, protoVars, typeVars, moreVars, dashVars>>

\* rows with the coordinate columns x_col and y_col
Coordinates == {Null, Num(0), Num(2), Num(7)}
PointRows == [x : Coordinates, y : Coordinates]

\* x IS NOT NULL AND y IS NOT NULL AND x != 0 AND y != 0
HasPoint(row) == ~row.x.null /\ ~row.y.null /\ row.x.n # 0 /\ row.y.n # 0

\* the values of a column in the rows that have a point
RECURSIVE PointValues(_, _)
PointValues(rows, column) ==
    IF rows = <<>> THEN <<>>
    ELSE (IF HasPoint(Head(rows)) THEN <<Head(rows)[column].n>> ELSE <<>>)
            \o PointValues(Tail(rows), column)

NoBounds == [none |-> TRUE, box |-> <<>>]
Bounds(min_y, min_x, max_y, max_x) ==
    [none |-> FALSE, box |-> <<<<min_y, min_x>>, <<max_y, max_x>>>>]

\* _DuckParquetRelationBase.get_bounds: MIN and MAX over no row are NULL, and
\* then res.iloc[0].isna().any()
get_bounds(rows) ==
    LET xs == Ascending(PointValues(rows, "x"))
        ys == Ascending(PointValues(rows, "y"))
    IN IF xs = <<>> THEN NoBounds
       ELSE Bounds(ys[1], xs[1], ys[Len(ys)], xs[Len(xs)])

BoundsQueries == {Asked("get_bounds", rows, <<>>) : rows \in RowLists(PointRows)}

GetBounds ==
    /\ query.method = "get_bounds"
    /\ ~query.done
    /\ query' = [query EXCEPT !.done = TRUE, !.result = get_bounds(query.rows)]
    /\ UNCHANGED <<registry, manager, plan, authVars, protoVars, typeVars, moreVars, dashVars>>

\* rows with the date column: a time is a number of half days counted from
\* the start of a week, so that two rows can fall on one day
Times == {0, 1, 2, 6, 15, 28}
TimeRows == [date : {Num(t) : t \in Times}]

\* time_series.get_sql_expression: CAST(date AS DATE) and
\* DATE_TRUNC('week', date), as the day the bucket starts on
get_sql_expression(interval, t) ==
    IF interval = "daily" THEN t \div 2 ELSE 7 * ((t \div 2) \div 7)

\* GROUP BY group_expr: the buckets that hold a row
BucketsOf(rows, interval) ==
    {get_sql_expression(interval, rows[i].date.n) : i \in 1..Len(rows)}
\* COUNT(*) of a bucket
CountIn(rows, interval, bucket) ==
    Cardinality({i \in 1..Len(rows) :
                    get_sql_expression(interval, rows[i].date.n) = bucket})

RECURSIVE AscendingSet(_)
\* ORDER BY group_expr / sort_values("date")
AscendingSet(S) ==
    IF S = {} THEN <<>>
    ELSE LET least == CHOOSE a \in S : \A b \in S : a <= b
         IN <<least>> \o AscendingSet(S \ {least})

\* RollingWindow(window, include_current), or none
NoWindow == [window |-> 0, include_current |-> FALSE]
RollingWindow(window, include_current) ==
    [window |-> window, include_current |-> include_current]

\* the window of the excluding case used for both cases
OneLess(rolling_window) == rolling_window.window - 1

\* start_offset: window - 1 if include_current else window
start_offset(rolling_window) ==
    IF rolling_window.include_current THEN rolling_window.window - 1
    ELSE rolling_window.window
\* end_row: CURRENT ROW or 1 PRECEDING, as the number of rows before the current
end_row(rolling_window) == IF rolling_window.include_current THEN 0 ELSE 1

\* AVG(COUNT(*)) OVER (ORDER BY group_expr ROWS BETWEEN start_offset PRECEDING
\* AND end_row): NULL over an empty frame, else [sum, number of rows]
Average(sum, n) == [null |-> n = 0, sum |-> sum, n |-> n]
WindowAverage(counts, i, rolling_window) ==
    LET first == IF i - start_offset(rolling_window) < 1 THEN 1
                 ELSE i - start_offset(rolling_window)
        last == i - end_row(rolling_window)
    IN IF last < first THEN Average(0, 0)
       ELSE Average(SumOf(SubSeq(counts, first, last)), last - first + 1)

\* _DuckParquetRelationBase.time_series_counts: the rows of the frame
time_series_counts(rows, interval, rolling_window) ==
    LET dates == AscendingSet(BucketsOf(rows, interval))
        counts == [i \in 1..Len(dates) |-> CountIn(rows, interval, dates[i])]
    IN [i \in 1..Len(dates) |->
          [date |-> dates[i],
           count |-> counts[i],
           rolling_window_avg |->
               IF rolling_window = NoWindow THEN Average(0, 0)
               ELSE WindowAverage(counts, i, rolling_window)]]

MaxWindow == 2
Windows ==
    {NoWindow} \cup {RollingWindow(n, c) : n \in 1..MaxWindow, c \in BOOLEAN}
SeriesQueries ==
    { Asked("time_series_counts", rows,
            [interval |-> interval, rolling_window |-> w]) :
        rows \in RowLists(TimeRows), interval \in {"daily", "weekly"}, w \in Windows }

TimeSeriesCounts ==
    /\ query.method = "time_series_counts"
    /\ ~query.done
    /\ query' = [query EXCEPT
                    !.done = TRUE,
                    !.result = time_series_counts(query.rows, query.arg.interval,
                                                  query.arg.rolling_window)]
    /\ UNCHANGED <<registry, manager, plan, authVars, protoVars, typeVars, moreVars, dashVars>>

(***************************************************************************)
(* data.py: the query plan of a relation object and the methods that run   *)
(* it.  A condition is a text in pieces.                                   *)
(***************************************************************************)
NoProjection == [none |-> TRUE, columns |-> <<>>]
Projection(columns) == [none |-> FALSE, columns |-> columns]
\* the engine has run nothing
NothingRan == [method |-> "", filters |-> <<>>, projections |-> NoProjection]

\* no relation object
NoPlan ==
    [made |-> FALSE, _filters |-> <<>>, _joins |-> <<>>, _projections |-> NoProjection,
     _export_fields |-> NoProjection, calls |-> 0, ran |-> NothingRan]

\* _DuckParquetRelationBase.__init__ followed by _apply_filters: the relation
\* with the conditions of its filters
Relation(conditions, export_fields) ==
    [made |-> TRUE, _filters |-> conditions, _joins |-> <<>>,
     _projections |-> NoProjection, _export_fields |-> export_fields, calls |-> 0,
     ran |-> NothingRan]

\* add_where: self._filters.append(condition); return self
add_where(self, where) ==
    [self EXCEPT !._filters = Append(self._filters, where)]

\* set_projection: self._projections = list(columns); return self
set_projection(self, columns) ==
    [self EXCEPT !._projections = Projection(columns)]

\* _build_relation and the execution: the engine runs the plan, the relation
\* keeps count of the calls
Run(self, method, include_projections) ==
    [self EXCEPT !.calls = self.calls + 1,
                 !.ran = [method |-> method, filters |-> self._filters,
                          projections |-> IF include_projections THEN self._projections
                                          ELSE NoProjection]]

PointCondition == <<"x IS NOT NULL AND y IS NOT NULL AND x != 0 AND y != 0">>
BoundsCondition(bounds) ==
    <<"y BETWEEN ", ToString(bounds[1][1]), " AND ", ToString(bounds[2][1]),
      " AND x BETWEEN ", ToString(bounds[1][2]), " AND ", ToString(bounds[2][2])>>
DayHourCondition ==
    <<"call_create_day_of_week IS NOT NULL AND call_create_hour IS NOT NULL">>

\* the rectangles get_sampled_points is called with; <<>> is None
Rectangles == {<<>>, <<<<40, 70>>, <<45, 80>>>>, <<<<41, 71>>, <<42, 72>>>>}

\* df / count / distinct / aggregate / sample: the plan is built and run
df(self) == Run(self, "df", TRUE)
count(self) == Run(self, "count", FALSE)
distinct(self) == Run(self, "distinct", TRUE)
aggregate(self, method) == Run(self, method, TRUE)
sample(self, method) == Run(self, method, TRUE)

\* get_export_data: self.set_projection(*self._export_fields).df()
get_export_data(self) ==
    IF self._export_fields.none THEN df(self)
    ELSE df(set_projection(self, self._export_fields.columns))

\* get_sampled_points: rel = self.add_where(...); rel = rel.add_where(...)
get_sampled_points(self, bounds) ==
    LET located == add_where(self, PointCondition)
    IN IF bounds # <<>> THEN sample(add_where(located, BoundsCondition(bounds)),
                                    "get_sampled_points")
       ELSE sample(located, "get_sampled_points")

\* get_bounds: self.add_where(...).aggregate(agg)
get_bounds_of(self) == aggregate(add_where(self, PointCondition), "get_bounds")

\* IncidentsRelation.get_day_hour_counts: self.add_where(where).aggregate(...)
get_day_hour_counts(self) ==
    aggregate(add_where(self, DayHourCondition), "get_day_hour_counts")

\* the calls made on one relation object
MaxQueries == 3
CanQuery == plan.made /\ plan.calls < MaxQueries
PlanUnchanged == UNCHANGED <<query, registry, manager, authVars, protoVars, typeVars, moreVars, dashVars>>

QueryDf == CanQuery /\ plan' = df(plan) /\ PlanUnchanged
QueryCount == CanQuery /\ plan' = count(plan) /\ PlanUnchanged
QueryDistinct == CanQuery /\ plan' = distinct(plan) /\ PlanUnchanged
QueryAggregate == CanQuery /\ plan' = aggregate(plan, "aggregate") /\ PlanUnchanged
QuerySample == CanQuery /\ plan' = sample(plan, "sample") /\ PlanUnchanged
QueryExportData == CanQuery /\ plan' = get_export_data(plan) /\ PlanUnchanged
QuerySampledPoints ==
    /\ CanQuery
    /\ \E bounds \in Rectangles : plan' = get_sampled_points(plan, bounds)
    /\ PlanUnchanged
QueryBounds == CanQuery /\ plan' = get_bounds_of(plan) /\ PlanUnchanged
QueryDayHourCounts == CanQuery /\ plan' = get_day_hour_counts(plan) /\ PlanUnchanged

\* the relations the callbacks make: IncidentsRelation(filters)
ExportFields == Projection(<<"neris_id_incident", "neris_id_dept", "call_create">>)
InitialPlans ==
    { Relation(<<>>, ExportFields),
      Relation(<<<<"csst_hazard_flag = true">>>>, ExportFields),
      Relation(<<<<"csst_hazard_flag = true">>>>, NoProjection) }

(***************************************************************************)
(* Initial states and specifications.                                      *)
(***************************************************************************)
InitAuth ==
    /\ sessionSid = 0
    /\ redisAuth = [sid \in Sids |-> NoEntry]
    /\ nextSid = 0
    /\ rel = NoRelation

InitProto ==
    /\ call = NoCall
    /\ ret = NotReturned

InitType == condition = NoBuild

InitMore == hcache = NoEntries /\ zoom = NoZoom /\ authCall = NoAuthCall /\ secrets = NoSecrets
            /\ request = NoRequest

InitLib ==
    /\ query = NoQuery
    /\ registry = NoRegistry
    /\ manager = NoThreads
    /\ plan = NoPlan

\* the served page: the store holds the UI defaults, nothing is selected, and
\* the four controllers are requested for the initial call
InitDash ==
    /\ filters = get_ui_defaults
    /\ ui = LayoutUi
    /\ chartData = [c \in {x.name : x \in Charts} |-> NonePayload]
    /\ nClicks = [b \in ButtonIds |-> 0]
    /\ memo = {}
    /\ pending = {Request(c.name, NoId) : c \in Charts}
    /\ lastRun = NoRun
    /\ interactions = 0
    /\ inflight = {}
    /\ wave = Started("load")

Init == InitAuth /\ InitProto /\ InitType /\ InitLib /\ InitMore /\ InitDash

\* the protocol as a function: the arguments are drawn at the start
InitCall ==
    /\ InitAuth
    /\ InitMore
    /\ InitType
    /\ InitLib
    /\ InitDash
    /\ call \in Calls
    /\ ret = NotReturned

\* a page whose store is one the charts and controls can have set, on which the
\* events of one set have just happened and their requests are in flight
InitWave ==
    /\ InitAuth
    /\ InitMore
    /\ InitProto
    /\ InitType
    /\ InitLib
    /\ filters \in ProtocolStores
    /\ memo = {}
    /\ pending = {}
    /\ lastRun = NoRun
    /\ \E E \in EventSets :
        /\ \A e \in E : e.kind = "set" => e.value # sync_filters_to_ui(filters)[e.id]
        /\ chartData = [n \in {x.name : x \in Charts} |->
                           IF \E e \in E : e.kind = "select" /\ e.cb = n
                           THEN (CHOOSE e \in E : e.kind = "select" /\ e.cb = n).payload
                           ELSE NonePayload]
        /\ nClicks = [b \in ButtonIds |-> IF ClickEvent(b) \in E THEN 1 ELSE 0]
        /\ ui = [c \in ControlIds |->
                    IF \E e \in E : e.kind = "set" /\ e.id = c
                    THEN (CHOOSE e \in E : e.kind = "set" /\ e.id = c).value
                    ELSE sync_filters_to_ui(filters)[c]]
        /\ inflight = UNION {RequestsOf(e, filters) : e \in E}
        /\ interactions = Cardinality(E)
        /\ wave = Started("sent")

NextAuth ==
    \/ GetAndCachePermissions
    \/ ExpireEntry
    \/ BuildRelation
    \/ ExecuteRelation

SpecAuth == Init /\ [][NextAuth]_vars

NextProto == CallReturns

Next ==
    \/ UserSetsControl
    \/ UserSelects
    \/ UserClicksButton
    \/ UpdateFilterStore
    \/ SyncFiltersToUi
    \/ TrendlineController
    \/ HeatmapController
    \/ IncidentTypesController
    \/ LocationUseController
    \/ ClearTrendlineFilter
    \/ ClearAllFilters

Spec == Init /\ [][Next]_vars

SpecProto == InitCall /\ [][NextProto]_vars

\* the filter types as functions: a config of the registry and a value are
\* drawn at the start
InitBuild ==
    /\ InitAuth
    /\ InitMore
    /\ InitProto
    /\ InitLib
    /\ InitDash
    /\ \E i \in ConfigPositions, value \in FilterValues :
          condition = Build(RegistryConfigs[i].filter_type,
                            RegistryConfigs[i].field_name, value)

\* stores as the controls, the trendline, its clear button and the treemap leave
\* them, each just written and about to be synced to the controls
SyncStores ==
    {[get_ui_defaults EXCEPT !["csst_hazard_only"] = BoolV(csst),
                             !["electric_hazard_only"] = BoolV(electric),
                             !["aid_direction"] = aid,
                             !["department_state"] = state,
                             !["start_date"] = start,
                             !["type_incident"] = type] :
        csst \in BOOLEAN, electric \in BOOLEAN, aid \in {AllV, StrV("GIVEN")},
        state \in {AllV, StrV("NY")}, start \in {NoneV, AllV, StrV("2024-01-01")},
        type \in {AllV, ListV(<<StrV("FIRE")>>)}}
InitSync ==
    /\ InitAuth
    /\ InitMore
    /\ InitProto
    /\ InitType
    /\ InitLib
    /\ filters \in SyncStores
    /\ ui = LayoutUi
    /\ chartData = [c \in {x.name : x \in Charts} |-> NonePayload]
    /\ nClicks = [b \in ButtonIds |-> 0]
    /\ memo = {}
    /\ pending = {Request("sync_filters_to_ui", StoreId)}
    /\ lastRun = NoRun
    /\ interactions = 0
    /\ inflight = {}
    /\ wave = Started("load")
NextSync == SyncFiltersToUi \/ UpdateFilterStore
SpecSync == InitSync /\ [][NextSync]_vars

\* paths of up to MaxDepth segments, and the stores that hold one of them
SegmentNames == <<"FIRE", "STRUCTURE", "ROOM", "RESCUE", "WATER">>
PathFrom(first, depth) == [i \in 1..depth |-> SegmentNames[((first + i - 2) % Len(SegmentNames)) + 1]]
ZoomStores(chart, path) ==
    {[s EXCEPT ![HierarchicalKey(chart)] = IF path = <<>> THEN AllV ELSE ListV(<<PathV(path)>>)] :
        s \in MemoStores}
InitZoom ==
    /\ InitAuth
    /\ InitProto
    /\ InitType
    /\ InitLib
    /\ InitDash
    /\ hcache = NoEntries
    /\ authCall = NoAuthCall
    /\ secrets = NoSecrets
    /\ request = NoRequest
    /\ \E chart \in {IncidentTypesChart, LocationUseChart}, first \in {1, 4}, depth \in 0..MaxDepth :
          \E store \in ZoomStores(chart, PathFrom(first, depth)) :
              zoom = [chart |-> chart.name, start |-> PathFrom(first, depth),
                      store |-> store, results |-> <<>>]
NextZoom == ZoomOutClick
SpecZoom == InitZoom /\ [][NextZoom]_vars

\* the token extracted from a request drawn at the start
InitRequest ==
    /\ InitAuth
    /\ InitProto
    /\ InitType
    /\ InitLib
    /\ InitDash
    /\ hcache = NoEntries
    /\ zoom = NoZoom
    /\ authCall = NoAuthCall
    /\ secrets = NoSecrets
    /\ request \in Requests
NextRequest == ExtractTokenFromRequest
SpecRequest == InitRequest /\ [][NextRequest]_vars

\* threads calling get_secret for one secret id
NextSecrets ==
    \/ GetSecretCalled
    \/ GetSecretChecks
    \/ GetSecretLocks
    \/ GetSecretChecksAgain
    \/ GetSecretFetches
    \/ GetSecretFails
    \/ GetSecretStores
SpecSecrets == Init /\ [][NextSecrets]_vars

\* the two memoized hierarchical controllers, invoked with any arguments
NextMemo == IncidentTypesControllerMemoized \/ LocationUseControllerMemoized
SpecMemo == Init /\ [][NextMemo]_vars

NextType == BuildCondition

SpecType == InitBuild /\ [][NextType]_vars

\* the query methods as functions: the rows and the arguments are drawn at the
\* start
InitQuery ==
    /\ InitAuth
    /\ InitMore
    /\ InitProto
    /\ InitType
    /\ InitDash
    /\ registry = NoRegistry
    /\ manager = NoThreads
    /\ plan = NoPlan
    /\ \/ query \in StatQueries
       \/ query \in BoundsQueries
       \/ query \in SeriesQueries

NextLib ==
    \/ GetSummaryCardStats
    \/ GetBounds
    \/ TimeSeriesCounts

SpecLib == InitQuery /\ [][NextLib]_vars

\* the registration of filter groups
NextRegistry == NewRegistry \/ AddGroup

SpecRegistry == Init /\ [][NextRegistry]_vars

\* threads calling DuckDBManager.get_connection, interleaved at every step
NextManager ==
    \/ GetConnectionCalled
    \/ GetConnectionTests
    \/ GetConnectionConnects
    \/ GetConnectionConfigures
    \/ GetConnectionStores
    \/ GetConnectionReturns

SpecManager == Init /\ [][NextManager]_vars

\* query methods called one after the other on one relation object
InitPlan ==
    /\ InitAuth
    /\ InitMore
    /\ InitProto
    /\ InitType
    /\ InitDash
    /\ query = NoQuery
    /\ registry = NoRegistry
    /\ manager = NoThreads
    /\ plan \in InitialPlans

NextPlan ==
    \/ QueryDf
    \/ QueryCount
    \/ QueryDistinct
    \/ QueryAggregate
    \/ QuerySample
    \/ QueryExportData
    \/ QuerySampledPoints
    \/ QueryBounds
    \/ QueryDayHourCounts

SpecPlan == InitPlan /\ [][NextPlan]_vars

\* the steps of the server and the renderer: the server answers every request
Callbacks ==
    \/ UpdateFilterStore
    \/ SyncFiltersToUi
    \/ TrendlineController
    \/ HeatmapController
    \/ IncidentTypesController
    \/ LocationUseController
    \/ ClearTrendlineFilter
    \/ ClearAllFilters

SpecLive == Init /\ [][Next]_vars /\ WF_vars(Callbacks)

NextWave ==
    \/ WaveController
    \/ WaveUpdateFilterStore
    \/ WaveClearTrendlineFilter
    \/ WaveClearAllFilters

SpecWave == InitWave /\ [][NextWave]_vars

(***************************************************************************)
(* Claims about the authorization gate and the relation constructor.      *)
(***************************************************************************)
HasCacheConfig(cls) ==
    \E i \in 1..Len(_filter_configs(cls)) : _filter_configs(cls)[i].source = "cache"

\* the predicate that restricts the id column to the allow-list L
AuthCondition(L) == Condition("neris_id_dept", "IN", L)
CarriesAuthCondition(r, L) == \E i \in 1..Len(r.preds) : r.preds[i] = AuthCondition(L)

\* C1: a relation of a group with a cache-sourced config, built while the
\* session's allow-list is a finite non-empty list, carries the allow-list
\* predicate whatever filter-value map (a dict, the empty dict, None) it was
\* constructed with.
C1_AuthAppliedAtConstruction ==
    (/\ rel.built
     /\ HasCacheConfig(rel.cls)
     /\ rel.authVal.tag = "list"
     /\ Len(rel.authVal.l) > 0)
        => CarriesAuthCondition(rel, rel.authVal.l)

\* the gate was asked: a non-empty map reached _apply_filters, which called
\* get_auth_cache_value for the cache-sourced config
GateAsked(r) == r.built /\ HasCacheConfig(r.cls) /\ ArgTruthy(r.arg)

\* C2: a query of a request whose permission entry could not be resolved when
\* the gate was asked (no session id, entry missing or expired after its
\* time-to-live) is never executed without an authorization predicate.
C2_FailsClosed ==
    (/\ GateAsked(rel)
     /\ rel.inRequest
     /\ rel.resolution = "miss"
     /\ rel.executed)
        => \E i \in 1..Len(rel.preds) :
              rel.preds[i].field = "neris_id_dept" /\ rel.preds[i].op = "IN"

\* C3: whenever the gate supplies a finite allow-list L, the empty list
\* included, the relation with the cache-sourced config carries the predicate
\* restricting the id column to the members of L.
C3_FiniteListRestricts ==
    (/\ GateAsked(rel)
     /\ rel.resolution = "list")
        => CarriesAuthCondition(rel, rel.authVal.l)

\* the filter-value maps that differ from d only under a cache-sourced key:
\* the key absent, or present with a value of the client's choosing
ClientChosen == {NoneV, AllV, ListV(<<>>), ListV(<<StrV("FD1")>>), ListV(<<StrV("FD2")>>),
                 StrV("FD2")}
CacheKeyVariants(d) ==
    {[k \in (DOMAIN d) \ {CACHE_FILTER_KEY} |-> d[k]]}
        \cup {Put(d, CACHE_FILTER_KEY, v) : v \in ClientChosen}

\* C4: for two filter-value maps that differ only in the value under the
\* cache-sourced key, _apply_filters produces the same predicate list: the
\* cache-sourced predicate depends on the session's authorization value alone.
C4_CachePredicateIgnoresClient ==
    (rel.built /\ ~rel.arg.none) =>
        \A d2 \in CacheKeyVariants(rel.arg.d) :
            _apply_filters(_filter_configs(rel.cls), d2, rel.inRequest, sessionSid, redisAuth)
                = _apply_filters(_filter_configs(rel.cls), rel.arg.d, rel.inRequest,
                                 sessionSid, redisAuth)

\* C4 witness: the client put its own id list under the cache-sourced key, the
\* session is authorized for FD1 only, and the relation carries FD1's predicate
C4_Witness ==
    /\ rel.built
    /\ rel.cls = "IncidentsRelation"
    /\ Get(rel.arg.d, CACHE_FILTER_KEY) = ListV(<<StrV("FD2")>>)
    /\ rel.authVal = ListV(<<StrV("FD1")>>)
    /\ rel.preds = <<AuthCondition(<<StrV("FD1")>>)>>

(***************************************************************************)
(* The reconciliation protocol as a function (SpecProto).                  *)
(***************************************************************************)
HasReturned == ret # NotReturned
SelfTriggered(c) == c.trigger_id = c.component_id
ClearTriggered(c) == c.clear_button_id # NoId /\ c.trigger_id = c.clear_button_id
MappedKeys(c) == UNION {SeqToSet(c.filter_mapping[a].keys) : a \in DOMAIN c.filter_mapping}
\* a payload with no selected points and no range
HoldsNothing(p) ==
    \/ p.none
    \/ /\ (~p.hasPoints \/ Len(p.points) = 0)
       /\ (~p.hasRange \/ (~p.range.hasX /\ ~p.range.hasY))
\* the payload of the interaction: the selection, or the click when there is no selection
InteractionPayload(c) ==
    IF ~c.selected_data.none /\ (c.selected_data.hasPoints \/ c.selected_data.hasRange)
    THEN c.selected_data
    ELSE c.click_data
IsClick(c) == c.selected_data.none /\ ~c.click_data.none

\* C6: a call whose trigger is neither the chart nor its clear control returns
\* no store update and, as the chart-local filters, the current store without
\* exactly the chart's mapped keys, whatever the payloads are.
C6_StoreTriggerIsFigureOnly ==
    (HasReturned /\ ~SelfTriggered(call) /\ ~ClearTriggered(call)) =>
        /\ ret.kind = "figure"
        /\ DOMAIN ret.comp = (DOMAIN call.current_filters) \ MappedKeys(call)
        /\ \A k \in DOMAIN ret.comp : ret.comp[k] = call.current_filters[k]

C6_Witness ==
    /\ HasReturned
    /\ call.trigger_id = StoreId
    /\ ~HoldsNothing(call.selected_data)
    /\ \E k \in MappedKeys(call) : call.current_filters[k] \notin {AllV, NoneV}
    /\ ret.kind = "figure"
    /\ DOMAIN ret.comp # DOMAIN call.current_filters

\* C7: a call triggered by the chart itself with an empty interaction payload,
\* which is not a click and not a clear-control trigger, while a mapped key of
\* the store is not the default, returns None (suppress entirely).
C7_GhostTriggerSuppressed ==
    ( /\ HasReturned
      /\ SelfTriggered(call)
      /\ ~ClearTriggered(call)
      /\ ~IsClick(call)
      /\ HoldsNothing(InteractionPayload(call))
      /\ \E k \in MappedKeys(call) : call.current_filters[k] # call.default_value )
    => ret = Suppress

C7_Witness ==
    /\ HasReturned
    /\ SelfTriggered(call)
    /\ call.selected_data = PointsPayload(<<>>)
    /\ call.current_filters["day_of_week"] = ListV(<<StrV("Monday")>>)
    /\ call.component_id = "day-hour-heatmap"
    /\ ret = Suppress

\* C8: when a call returns a new store S', the same call with S' as the
\* current store returns None (suppress entirely).
C8_Idempotent ==
    (HasReturned /\ ret.kind = "update") =>
        Protocol([call EXCEPT !.current_filters = ret.store]) = Suppress

C8_Witness ==
    /\ HasReturned
    /\ ret.kind = "update"
    /\ call.component_id = "day-hour-heatmap"
    /\ call.selected_data \in HeatmapSelections
    /\ ret.store["day_of_week"] = ListV(<<StrV("Monday"), StrV("Tuesday"), StrV("Wednesday")>>)
    /\ ret.store["hour"] = ListV(<<IntV(0), IntV(1)>>)

(***************************************************************************)
(* The dashboard (Spec).                                                   *)
(***************************************************************************)
CacheSourcedKeys ==
    {RegistryConfigs[i].filter_key : i \in {j \in ConfigPositions : RegistryConfigs[j].source = "cache"}}

\* C5: the filter store, seeded with get_ui_defaults() and written by
\* update_filter_store, the four controllers, clear_trendline_filter and
\* clear_all_filters, never holds a cache-sourced key, and get_ui_defaults()
\* holds none.
C5_StoreHasNoCacheKey ==
    /\ CacheSourcedKeys \cap DOMAIN filters = {}
    /\ CacheSourcedKeys \cap DOMAIN get_ui_defaults = {}

C5_Witness ==
    /\ CacheSourcedKeys # {}
    /\ nClicks["clear-filters-button"] > 0
    /\ lastRun.wrote
    /\ lastRun.cb = "heatmap"
    /\ ~ValEq(filters["hour"], get_ui_defaults["hour"])
    /\ interactions = MaxInteractions

\* C9: a store value written by a cross-filter controller differs from the
\* store the controller read on at least one of the chart's mapped keys.
C9_ControllerWriteChangesStore ==
    lastRun.wrote =>
        \E k \in _get_crossfilter_keys(ChartNamed(lastRun.cb).filter_mapping) :
            ~ValEq(Get(filters, k), Get(lastRun.read, k))

\* C10: a controller run whose trigger is the store or the initial load does
\* not write the store.
C10_StoreTriggeredRunNeverWrites ==
    lastRun.wrote => lastRun.trigger \notin {StoreId, NoId}

(***************************************************************************)
(* Callbacks served concurrently: writers of the store.                    *)
(***************************************************************************)
AllAnswered == inflight # {} /\ \A r \in inflight : r.out # Unanswered
\* the store keys a callback's answer changes with respect to the State it read
WrittenKeys(r) ==
    IF r.out.kind = "write"
    THEN {k \in (DOMAIN r.out.store) \cup (DOMAIN r.state) :
             Get(r.out.store, k) # Get(r.state, k)}
    ELSE {}

\* C11: the callbacks started by one triggering event never write the same
\* store key: any two requests with the same trigger change disjoint sets of keys.
C11_OneWriterPerKeyPerEvent ==
    \A r1 \in inflight : \A r2 \in inflight \ {r1} :
        r1.trigger = r2.trigger => WrittenKeys(r1) \cap WrittenKeys(r2) = {}

\* C12: when the controllers of two different charts read the same store
\* snapshot and each writes a new store, then in whatever order they are answered
\* the store holds, for each chart's mapped keys, the values that chart wrote.
C12_ParallelWritesKept ==
    (/\ AllAnswered
     /\ Cardinality(inflight) = 2
     /\ \A r \in inflight : r.cb \in {c.name : c \in Charts} /\ r.out.kind = "write")
    => \A r \in inflight :
            \A k \in _get_crossfilter_keys(ChartNamed(r.cb).filter_mapping) :
                Get(filters, k) = Get(r.out.store, k)

(***************************************************************************)
(* The protocol as a function (SpecProto), continued.                      *)
(***************************************************************************)
EffectiveStore == IF ret.kind = "update" THEN ret.store ELSE call.current_filters

\* C13: in every result that is not None, the chart-local filters hold none of
\* the keys named by filter_mapping (both keys of a two-key mapping included)
\* and agree on every other key with the effective store: the new store when
\* one is returned, the current store otherwise.
C13_ChartLocalExcludesOwnKeys ==
    (HasReturned /\ ret.kind \in {"figure", "update"}) =>
        /\ (DOMAIN ret.comp) \cap MappedKeys(call) = {}
        /\ \A k \in (DOMAIN EffectiveStore) \ MappedKeys(call) :
              k \in DOMAIN ret.comp /\ ret.comp[k] = EffectiveStore[k]
        /\ DOMAIN ret.comp \subseteq DOMAIN EffectiveStore

C13_Witness ==
    /\ HasReturned
    /\ ret.kind = "update"
    /\ call.component_id = "trendline-chart"
    /\ ret.store["start_date"] = StrV("2024-01-01")
    /\ ret.store["end_date"] = StrV("2024-03-15")
    /\ "start_date" \notin DOMAIN ret.comp
    /\ "end_date" \notin DOMAIN ret.comp
    /\ call.current_filters["department_state"] = StrV("NY")
    /\ ret.comp["department_state"] = StrV("NY")

(***************************************************************************)
(* The dashboard: quiescence.                                              *)
(***************************************************************************)
\* C14: with callbacks requested only when an input changes value, the page
\* always comes to rest with no callback pending, and between a selection or
\* click on a chart and the next interaction the store changes at most once:
\* the chart's own write, after which the store-triggered runs only redraw.
C14_Quiescence ==
    /\ []<>Idle
    /\ [](wave.event = "select" => wave.changes <= 1)

(***************************************************************************)
(* The protocol as a function (SpecProto): clearing.                       *)
(***************************************************************************)
\* the registered configuration of a store key, and the default of its kind
ConfigOf(k) ==
    RegistryConfigs[CHOOSE i \in ConfigPositions : RegistryConfigs[i].filter_key = k]
KindDefault(k) == resolve_filter_type(ConfigOf(k)).default_value
\* a call that clears: the clear control, or the chart itself with an empty
\* payload that is not a ghost (a click, or no mapped key is set)
Clears(c) ==
    \/ ClearTriggered(c)
    \/ /\ SelfTriggered(c)
       /\ HoldsNothing(InteractionPayload(c))
       /\ (IsClick(c) \/ \A k \in MappedKeys(c) : c.current_filters[k] = c.default_value)

\* C15: when a clearing call returns a new store, the new store is the current
\* store with every mapped key set to the default value of the key's filter
\* kind, and the kind's condition builder gives no condition for it.
C15_ClearResetsToKindDefaults ==
    (HasReturned /\ Clears(call) /\ ret.kind = "update") =>
        /\ DOMAIN ret.store = DOMAIN call.current_filters
        /\ \A k \in (DOMAIN ret.store) \ MappedKeys(call) :
              ret.store[k] = call.current_filters[k]
        /\ \A k \in MappedKeys(call) :
              /\ ret.store[k] = KindDefault(k)
              /\ build_condition(ConfigOf(k).filter_type, ConfigOf(k).field_name,
                                 ret.store[k]) = NoCondition

(***************************************************************************)
(* The protocol as a function (SpecProto): hierarchical zoom-out.          *)
(***************************************************************************)
\* the id of a node's parent: the path without its last segment, and the
\* default for a top-level node
ParentId(id, default_value) ==
    IF Len(id.s) > 1 THEN PathV([i \in 1..(Len(id.s) - 1) |-> id.s[i]]) ELSE default_value
\* the clicked node is the centre: percentEntry is 1.0
IsCentre(pt) == "percentEntry" \in DOMAIN pt /\ pt["percentEntry"] = IntV(1)
ZoomedClick == _handle_hierarchical_zoom_out(call.click_data, call.default_value)

\* C16: for a click on a hierarchical chart triggered by the chart, every
\* clicked centre node whose id is a string other than the default is rewritten
\* to its parent ('FIRE||STRUCTURE' to 'FIRE', 'FIRE' to the default), every
\* other point is left as it is, and the call answers as for the rewritten click.
C16_ZoomOut ==
    ( /\ HasReturned
      /\ SelfTriggered(call)
      /\ IsClick(call)
      /\ call.is_hierarchical
      /\ call.click_data.hasPoints )
    => /\ Len(ZoomedClick.points) = Len(call.click_data.points)
       /\ \A i \in 1..Len(call.click_data.points) :
             LET pt == call.click_data.points[i]
             IN ZoomedClick.points[i] =
                   IF /\ IsCentre(pt)
                      /\ "id" \in DOMAIN pt
                      /\ pt["id"].tag = "str"
                      /\ pt["id"] # call.default_value
                   THEN [pt EXCEPT !["id"] = ParentId(pt["id"], call.default_value)]
                   ELSE pt
       /\ ret = Protocol([call EXCEPT !.click_data = ZoomedClick, !.is_hierarchical = FALSE])

C16_Witness ==
    /\ HasReturned
    /\ call.trigger_id = "incident-types-categorical-chart"
    /\ call.component_id = "incident-types-categorical-chart"
    /\ call.selected_data = NonePayload
    /\ call.click_data = PointsPayload(<<Node(PathV(<<"FIRE", "STRUCTURE">>), IntV(1))>>)
    /\ ZoomedClick = PointsPayload(<<Node(StrV("FIRE"), IntV(1))>>)
    /\ ret.kind = "update"
    /\ ret.store["type_incident"] = ListV(<<StrV("FIRE")>>)

(***************************************************************************)
(* The protocol as a function (SpecProto): ranges on an ordered axis.      *)
(***************************************************************************)
\* the integer nearest to n tenths, the even one of two equally near
NearestIndex(n) ==
    CHOOSE i \in -1..30 :
        /\ (10 * i - n) \in -5..5
        /\ ((10 * i - n) \in {-5, 5} => i % 2 = 0)
\* the labels of an ordered axis at the in-bounds indices from round(a) to round(b)
LabelsBetween(pair, order) ==
    {order.l[i + 1] : i \in {j \in 0..(Len(order.l) - 1) :
                                NearestIndex(pair[1].n) <= j /\ j <= NearestIndex(pair[2].n)}}
NumericRange(pair) == Len(pair) = 2 /\ \A i \in 1..2 : pair[i].tag = "num"
ResolvedRange == _parse_selected_range(call.selected_data, call.x_order, call.y_order)
\* the example: x = [2.2, 5.7] on the axis of the seven days
IsRangeExample ==
    /\ HasReturned
    /\ call.selected_data = RangeXPayload(TenthsV(22), TenthsV(57))
    /\ call.x_order = Order(DAY_ORDER)
RangeRule ==
    (HasReturned /\ call.selected_data.hasRange) =>
        /\ (call.selected_data.range.hasX /\ ~call.x_order.none
                /\ NumericRange(call.selected_data.range.x))
           => ResolvedRange[1] = LabelsBetween(call.selected_data.range.x, call.x_order)
        /\ (call.selected_data.range.hasY /\ ~call.y_order.none
                /\ NumericRange(call.selected_data.range.y))
           => ResolvedRange[2] = LabelsBetween(call.selected_data.range.y, call.y_order)

\* C17 as stated: a range [a, b] on an ordered axis resolves to the labels at
\* the in-bounds indices from round(a) to round(b), and x = [2.2, 5.7] on the
\* seven days resolves to {Wednesday, Thursday, Friday, Saturday}.
C17_RangeResolution ==
    /\ RangeRule
    /\ IsRangeExample =>
          ResolvedRange[1] = {StrV("Wednesday"), StrV("Thursday"), StrV("Friday"),
                              StrV("Saturday")}

\* C17 amended: a range [a, b] on an ordered axis resolves to the labels at the
\* in-bounds indices from round(a) to round(b), round being Python's (to the
\* nearest integer, halves to the even one); x = [2.2, 5.7] on the seven days
\* resolves to {Wednesday, Thursday, Friday, Saturday, Sunday}, 5.7 rounding to 6.
C17_RangeResolutionAmended ==
    /\ RangeRule
    /\ IsRangeExample =>
          ResolvedRange[1] = {StrV("Wednesday"), StrV("Thursday"), StrV("Friday"),
                              StrV("Saturday"), StrV("Sunday")}

C17_Witness ==
    /\ IsRangeExample
    /\ call.trigger_id = call.component_id
    /\ call.current_filters = get_ui_defaults
    /\ ret.kind = "update"
    /\ ret.store["day_of_week"] = ListV(<<StrV("Friday"), StrV("Saturday"), StrV("Sunday"),
                                          StrV("Thursday"), StrV("Wednesday")>>)

(***************************************************************************)
(* The protocol as a function (SpecProto): two-key range mappings.         *)
(***************************************************************************)
\* the attributes of the call mapped to a pair of keys
PairAttrs(c) == {a \in DOMAIN c.filter_mapping : c.filter_mapping[a].tuple}
\* the values the payload resolves to, by attribute
ResolvedValues(c) ==
    Selections(_parse_selected_points(c.selected_data, c.x_order, c.y_order),
               _parse_selected_range(c.selected_data, c.x_order, c.y_order))
MinOf(V) == CHOOSE a \in V : \A b \in V : a = b \/ PyLess(a, b)
MaxOf(V) == CHOOSE a \in V : \A b \in V : a = b \/ PyLess(b, a)
\* the payload with the ends of its x range swapped and its points reversed
Reversed(p) ==
    [p EXCEPT !.points = [i \in 1..Len(p.points) |-> p.points[Len(p.points) + 1 - i]],
              !.range.x = [i \in 1..Len(p.range.x) |-> p.range.x[Len(p.range.x) + 1 - i]]]

\* C18: for an attribute mapped to a pair of keys (k1, k2) and a non-empty set
\* of resolved values that can be ordered, the filters are updated to k1 = the
\* least and k2 = the greatest value; a new store returned for the selection
\* holds them, and the payload with its values in the opposite order gives the
\* same answer.
C18_PairGetsMinAndMax ==
    HasReturned =>
        \A a \in PairAttrs(call) \cap DOMAIN ResolvedValues(call) :
            LET V == ResolvedValues(call)[a]
                k1 == call.filter_mapping[a].keys[1]
                k2 == call.filter_mapping[a].keys[2]
                new == _update_filters_from_selection_values(
                           call.current_filters, call.filter_mapping[a], V,
                           call.default_value)
            IN (V # {} /\ AllComparable(V)) =>
                  /\ ~new.raised
                  /\ new.f[k1] = MinOf(V)
                  /\ new.f[k2] = MaxOf(V)
                  /\ (SelfTriggered(call) /\ ret.kind = "update") =>
                        ret.store[k1] = MinOf(V) /\ ret.store[k2] = MaxOf(V)
                  /\ Protocol([call EXCEPT !.selected_data = Reversed(@)]) = ret

C18_Witness ==
    /\ HasReturned
    /\ call.component_id = "trendline-chart"
    /\ call.trigger_id = "trendline-chart"
    /\ call.selected_data = RangeXPayload(StrV("2024-03-15"), StrV("2024-01-01"))
    /\ ret.kind = "update"
    /\ ret.store["start_date"] = StrV("2024-01-01")
    /\ ret.store["end_date"] = StrV("2024-03-15")

(***************************************************************************)
(* The filter types as functions (SpecType).                               *)
(***************************************************************************)
\* the values for which a filter type is to give no condition: its default
\* value, the empty list, and "all" for the types whose default it is
Inactive(type) ==
    {FILTER_TYPES[type].default_value, ListV(<<>>)}
        \cup (IF FILTER_TYPES[type].default_value = AllV THEN {AllV} ELSE {})

\* C19: build_condition of each of the six filter types returns None for the
\* type's default value, for the empty list, and for "all" where "all" is the
\* type's default; the boolean type returns None for False.
C19_DefaultsGiveNoCondition ==
    condition.built =>
        /\ condition.value \in Inactive(condition.filter_type)
              => condition.result = NoCondition
        /\ (condition.filter_type = "boolean" /\ condition.value = BoolV(FALSE))
              => condition.result = NoCondition

C19_Witness ==
    /\ condition.built
    /\ condition.filter_type = "categorical"
    /\ condition.value = AllV
    /\ condition.result = NoCondition

\* C20: build_condition of the categorical_list type returns None for the
\* list ['all'].
C20_ListOfAllIsEmpty ==
    (/\ condition.built
     /\ condition.filter_type = "categorical_list"
     /\ condition.value = ListV(<<AllV>>))
        => condition.result = NoCondition

(***************************************************************************)
(* The text of the conditions (SpecType).                                  *)
(***************************************************************************)
RECURSIVE Literals(_, _, _, _)
\* the string literals of a SQL text as the query engine reads them: a quote
\* opens a literal, two quotes inside it stand for one, a single quote closes
\* it; closed is false when the text ends inside a literal
Literals(text, inside, cur, lits) ==
    IF text = <<>> THEN [closed |-> ~inside, lits |-> lits]
    ELSE IF ~inside
    THEN Literals(Tail(text), Head(text) = Quote, <<>>, lits)
    ELSE IF Head(text) # Quote
    THEN Literals(Tail(text), TRUE, cur \o <<Head(text)>>, lits)
    ELSE IF Len(text) >= 2 /\ text[2] = Quote
    THEN Literals(Tail(Tail(text)), TRUE, cur \o <<Quote>>, lits)
    ELSE Literals(Tail(text), FALSE, <<>>, Append(lits, cur))

\* the values a condition embeds: the elements of a list for the two kinds
\* that take lists, else the value
Embedded(type, value) ==
    IF value.tag = "list" /\ type \in {"categorical_list", "prefix"}
    THEN value.l ELSE <<value>>

\* the literals a condition is to hold: for a prefix filter every value with
\* the wildcard, for a date filter the value, for the categorical kinds every
\* value that is not a number
ExpectedLiterals(type, value) ==
    LET vals == Embedded(type, value)
        quoted == IF type \in {"categorical", "categorical_list"}
                  THEN SelectSeq(vals, LAMBDA v : v.tag \notin {"bool", "num"})
                  ELSE vals
    IN [i \in 1..Len(quoted) |->
            IF type = "prefix" THEN PyStr(quoted[i]) \o <<"%">> ELSE PyStr(quoted[i])]

RECURSIVE Holds(_, _)
\* the text holds the pieces of part, in a row
Holds(text, part) ==
    /\ Len(text) >= Len(part)
    /\ \/ SubSeq(text, 1, Len(part)) = part
       \/ Holds(Tail(text), part)

\* a condition that embeds its value has been built
EmbedsValues ==
    /\ condition.built
    /\ condition.result # NoCondition
    /\ condition.filter_type # "boolean"

\* C21: in the condition a filter type builds, every value embedded as a
\* string is a quoted literal in which each quote of the value is doubled, so
\* that the literals read back are exactly the values (a prefix filter over a
\* list holds one LIKE clause per element, joined by OR); a number of a
\* categorical or categorical_list filter is emitted without quotes.
C21_QuotesEscaped ==
    EmbedsValues =>
        LET read == Literals(condition.sql, FALSE, <<>>, <<>>)
            vals == Embedded(condition.filter_type, condition.value)
        IN /\ read.closed
           /\ read.lits = ExpectedLiterals(condition.filter_type, condition.value)
           /\ condition.filter_type \in {"categorical", "categorical_list"} =>
                 \A i \in 1..Len(vals) :
                     vals[i].tag = "num" => Holds(condition.sql, NumText(vals[i].n))
           /\ (condition.filter_type = "prefix" /\ condition.value.tag = "list") =>
                 Len(SelectSeq(condition.sql, LAMBDA p : p = " OR ")) = Len(vals) - 1

\* the same for the kinds other than date_gte and date_lte
C21_QuotesEscapedButDates ==
    condition.filter_type \notin {"date_gte", "date_lte"} => C21_QuotesEscaped

(***************************************************************************)
(* filters.py: FilterRegistry.format_display.                              *)
(***************************************************************************)
\* the filter keys of the registry in the order sorted() gives them
SortedKeys ==
    << "aid_direction", "authorized_neris_ids", "csst_hazard_only", "day_of_week",
       "department_state", "electric_hazard_only", "end_date", "hour",
       "location_use_path", "medical_oxygen_hazard_only", "neris_id_dept",
       "powergen_hazard_only", "primary_only", "start_date", "type_ff_nonff",
       "type_incident" >>

\* utils.format_title_case, as the text it is applied to
format_title_case(text) == <<"title case of", text>>

\* the display_name and display_formatter given to a config in tables.py
DisplayName(k) == IF k = "neris_id_dept" THEN <<"Department NERIS ID">> ELSE <<>>
HasFormatter(k) == k \in {"day_of_week", "hour"}

_default_display_formatter(value) ==
    IF value = NoneV \/ value = AllV THEN <<"All">>
    ELSE IF value.tag = "bool" THEN (IF value.n = 1 THEN <<"Yes">> ELSE <<"No">>)
    ELSE IF value.tag = "list"
    THEN IF Len(value.l) = 0 THEN <<"None">>
         ELSE JoinTexts([i \in 1..Len(value.l) |-> ScalarText(value.l[i])], ", ")
    ELSE PyStr(value)

\* html.Div("All filters at default", ...)
Placeholder == [name |-> <<>>, value |-> <<"All filters at default">>]

\* the component shown for one key of the store, or none
DisplayOf(fltrs, key) ==
    IF ConfigOf(key).exclude_from_display THEN <<>>
    ELSE IF PyEq(fltrs[key], Get(get_all_defaults, key)) THEN <<>>
    ELSE << [name  |-> IF DisplayName(key) # <<>> THEN DisplayName(key)
                       ELSE format_title_case(key),
             value |-> IF HasFormatter(key) THEN <<"range of", fltrs[key]>>
                       ELSE _default_display_formatter(fltrs[key])] >>

RECURSIVE DisplayFrom(_, _)
\* the components of the keys from position i on
DisplayFrom(fltrs, i) ==
    IF i > Len(SortedKeys) THEN <<>>
    ELSE (IF SortedKeys[i] \in DOMAIN fltrs THEN DisplayOf(fltrs, SortedKeys[i]) ELSE <<>>)
            \o DisplayFrom(fltrs, i + 1)

format_display(fltrs) ==
    IF DisplayFrom(fltrs, 1) = <<>> THEN <<Placeholder>> ELSE DisplayFrom(fltrs, 1)

\* a filter that clear_all_filters leaves alone and that is displayed is set
NonClearableShown(fltrs) ==
    \E k \in DOMAIN fltrs :
        /\ ~ConfigOf(k).clearable
        /\ DisplayOf(fltrs, k) # <<>>

\* C22: for every store the dashboard can hold in which no non-clearable
\* displayed filter is set, format_display of the store that clear_all_filters
\* returns (the store overwritten with get_clearable_defaults()) is the single
\* "All filters at default" entry; and the store left by a clear_all_filters
\* run is displayed so.
C22_ClearedStoreShowsPlaceholder ==
    /\ [](~NonClearableShown(filters) =>
             format_display(clear_all_filters(filters)) = <<Placeholder>>)
    /\ [][(ClearAllFilters /\ nClicks["clear-filters-button"] > 0)
             => format_display(filters') = <<Placeholder>>]_vars

\* a store with filters on display was cleared with the button
C22_Witness ==
    /\ nClicks["clear-filters-button"] > 0
    /\ nClicks["clear-trendline-filter"] = 0
    /\ wave.event = "click"
    /\ wave.changes >= 1
    /\ format_display(filters) = <<Placeholder>>

(***************************************************************************)
(* The query methods as functions (SpecLib).                               *)
(***************************************************************************)
\* get_summary_card_stats has answered
StatsDone == query.done /\ query.method = "get_summary_card_stats"
\* the position of a statistic among the cards
CardOf(alias) == CHOOSE i \in 1..Len(CardOrder) : CardOrder[i] = alias

\* C23: when the relation's conditions let no row through, every statistic
\* returned by _calculate_aggregate_stats, and its card in
\* get_summary_card_stats, is the statistic's configured default; for any
\* number of rows no statistic is the text of None or NaN, and a statistic
\* whose aggregate is NULL (held as None or NaN in the frame) is its default.
C23_AggregateDefaults ==
    StatsDone =>
        \A a \in StatAliases :
            /\ Len(query.rows) = 0 => query.result.stats[a] = StatOf(a).default_value
            /\ query.result.stats[a] \notin {<<>>, <<"None">>, <<"NaN">>}
            /\ AggregateValue(StatOf(a), query.rows).null
                  => query.result.stats[a] = StatOf(a).default_value
            /\ query.result.cards[CardOf(a)] = query.result.stats[a]

\* rows came through, the sum of a column without values is NULL and held as
\* NaN, and the default is returned next to a computed statistic
C23_Witness ==
    /\ StatsDone
    /\ Len(query.rows) = 2
    /\ query.arg.missing = FrameNaN
    /\ AggregateValue(StatOf("total_unit_responses"), query.rows).null
    /\ query.result.stats["total_unit_responses"] = <<"0">>
    /\ query.result.stats["total_count"] = <<"2">>
    /\ query.result.stats["p90_duration"] # <<"0", "m ", "0", "s">>

(***************************************************************************)
(* The registration of filter groups (SpecRegistry).                       *)
(***************************************************************************)
\* the configs of a group have different filter keys
UniqueKeys(configs) ==
    \A i, j \in 1..Len(configs) : configs[i].filter_key = configs[j].filter_key => i = j

\* C24: a registry never holds a group with two configs of the same
\* filter_key: building the registry with such a group, or adding one, fails.
C24_RegisteredKeysUnique ==
    registry.built => \A n \in DOMAIN registry.groups : UniqueKeys(registry.groups[n])

(***************************************************************************)
(* The connections of the threads (SpecManager).                           *)
(***************************************************************************)
\* the connections get_connection has returned to a thread
ReturnedTo(t) == SeqToSet(manager.returned[t])
\* the number of connections a thread has created
CreatedBy(t) == Cardinality({i \in 1..Len(manager.creator) : manager.creator[i] = t})

\* C25: under every interleaving of get_connection calls of several threads,
\* no connection is returned to two different threads, every call of one
\* thread returns the same connection, and a thread creates a connection at
\* most once (at its first call).
C25_ConnectionPerThread ==
    /\ \A t, u \in Threads : t # u => ReturnedTo(t) \cap ReturnedTo(u) = {}
    /\ \A t \in Threads :
          /\ Cardinality(ReturnedTo(t)) <= 1
          /\ 0 \notin ReturnedTo(t)
          /\ CreatedBy(t) <= 1

\* two threads have each called twice and each was given its own connection
C25_Witness ==
    /\ Len(manager.returned[1]) >= 2
    /\ Len(manager.returned[2]) >= 2
    /\ ReturnedTo(1) = {1}
    /\ ReturnedTo(2) = {2}

\* the rows whose coordinates are not NULL and not the pair (0, 0)
RECURSIVE Located(_)
Located(rows) ==
    IF rows = <<>> THEN <<>>
    ELSE (IF /\ ~Head(rows).x.null
             /\ ~Head(rows).y.null
             /\ ~(Head(rows).x.n = 0 /\ Head(rows).y.n = 0)
          THEN <<Head(rows)>> ELSE <<>>)
            \o Located(Tail(rows))
\* the least and the greatest of the values of a column
Least(rows, column) == Ascending(NonNull(rows, column))[1]
Greatest(rows, column) == Ascending(NonNull(rows, column))[Len(rows)]

\* C26: get_bounds returns [[min y, min x], [max y, max x]] over exactly the
\* rows whose coordinates are not NULL and not the pair (0, 0), a row with one
\* coordinate equal to zero included, and None when there is no such row.
C26_BoundsOverLocatedRows ==
    (query.done /\ query.method = "get_bounds") =>
        LET rows == Located(query.rows)
        IN IF rows = <<>> THEN query.result = NoBounds
           ELSE query.result = Bounds(Least(rows, "y"), Least(rows, "x"),
                                      Greatest(rows, "y"), Greatest(rows, "x"))

\* the same over the rows of which neither coordinate is NULL or zero
C26_BoundsOverNonZeroRows ==
    (query.done /\ query.method = "get_bounds") =>
        LET rows == SelectSeq(query.rows, HasPoint)
        IN IF rows = <<>> THEN query.result = NoBounds
           ELSE query.result = Bounds(Least(rows, "y"), Least(rows, "x"),
                                      Greatest(rows, "y"), Greatest(rows, "x"))

\* time_series_counts with a rolling window has answered
SeriesDone ==
    /\ query.done
    /\ query.method = "time_series_counts"
    /\ query.arg.rolling_window # NoWindow
\* the buckets the average of the bucket d is taken over: the n most recent
\* buckets that hold a row, up to d itself or up to the bucket before d
Recent(buckets, d, rolling_window) ==
    LET upto == {b \in buckets : IF rolling_window.include_current THEN b <= d ELSE b < d}
    IN {b \in upto : Cardinality({c \in upto : c > b}) < rolling_window.window}
RECURSIVE TotalIn(_, _, _)
TotalIn(rows, interval, buckets) ==
    IF buckets = {} THEN 0
    ELSE LET b == CHOOSE b \in buckets : TRUE
         IN CountIn(rows, interval, b) + TotalIn(rows, interval, buckets \ {b})

\* C27: time_series_counts with a rolling window of n buckets returns one row
\* for each bucket that holds a row and no other, in ascending order of the
\* bucket, with the number of rows of the bucket and the average of the counts
\* of the n most recent such buckets, ending at the bucket itself when
\* include_current and at the bucket before it when not (no value when there
\* is no such bucket).
C27_TrailingAverage ==
    SeriesDone =>
        LET out == query.result
            buckets == BucketsOf(query.rows, query.arg.interval)
        IN /\ {out[i].date : i \in 1..Len(out)} = buckets
           /\ \A i, j \in 1..Len(out) : i < j => out[i].date < out[j].date
           /\ \A i \in 1..Len(out) :
                 LET over == Recent(buckets, out[i].date, query.arg.rolling_window)
                 IN /\ out[i].count = CountIn(query.rows, query.arg.interval, out[i].date)
                    /\ out[i].count >= 1
                    /\ (out[i].date \in over) = query.arg.rolling_window.include_current
                    /\ out[i].rolling_window_avg.null = (over = {})
                    /\ over # {} =>
                          /\ out[i].rolling_window_avg.n = Cardinality(over)
                          /\ out[i].rolling_window_avg.sum
                                = TotalIn(query.rows, query.arg.interval, over)

\* three rows on two days with a gap between the days, window of two buckets
\* without the current one: the second bucket's average is the first's count
C27_Witness ==
    /\ SeriesDone
    /\ query.arg.interval = "daily"
    /\ query.arg.rolling_window = RollingWindow(2, FALSE)
    /\ Len(query.rows) = 3
    /\ Len(query.result) = 2
    /\ query.result[1] = [date |-> 0, count |-> 2, rolling_window_avg |-> Average(0, 0)]
    /\ query.result[2] = [date |-> 7, count |-> 1, rolling_window_avg |-> Average(2, 1)]

(***************************************************************************)
(* The query plan of a relation object (SpecPlan).                         *)
(***************************************************************************)
\* C28: no query method changes the relation it is called on: after df, count,
\* distinct, aggregate, sample, get_bounds, get_sampled_points,
\* get_day_hour_counts or get_export_data the relation's conditions, joins and
\* projection are what they were before the call.
C28_QueriesLeavePlanAlone ==
    [][NextPlan => /\ plan'._filters = plan._filters
                   /\ plan'._joins = plan._joins
                   /\ plan'._projections = plan._projections]_vars

\* the same for the five methods that only build and run the plan
C28_RunnersLeavePlanAlone ==
    [][(QueryDf \/ QueryCount \/ QueryDistinct \/ QueryAggregate \/ QuerySample)
          => /\ plan'._filters = plan._filters
             /\ plan'._joins = plan._joins
             /\ plan'._projections = plan._projections]_vars

\* the payload the call hands to _process_selection: the selection, or the click
\* (a clicked centre node rewritten to its parent) when there is no selection
Decoded(c) ==
    IF PayloadTruthy(c.selected_data) THEN c.selected_data
    ELSE IF SelfTriggered(c) /\ IsClick(c) /\ c.is_hierarchical
    THEN _handle_hierarchical_zoom_out(c.click_data, c.default_value)
    ELSE c.click_data
\* the values the decoded payload resolves to for attribute a: none when no
\* point carries the attribute
ResolvedFor(c, a) ==
    LET resolved == Selections(_parse_selected_points(Decoded(c), c.x_order, c.y_order),
                               _parse_selected_range(Decoded(c), c.x_order, c.y_order))
    IN IF a \in DOMAIN resolved THEN resolved[a] ELSE {}
\* the store after the call: the returned store, or the current one when the
\* call returns no update
StoreAfter == IF ret.kind = "update" THEN ret.store ELSE call.current_filters
\* a chart's own interaction with a payload that holds something
Interacted ==
    /\ HasReturned
    /\ SelfTriggered(call)
    /\ ~ClearTriggered(call)
    /\ ~_is_selection_empty(Decoded(call))
    /\ ret.kind # "raise"
NothingResolved(c, a) == ResolvedFor(c, a) = {} \/ ResolvedFor(c, a) = {c.default_value}

\* C29: for a payload that holds something, every key mapped from an attribute
\* that resolves to no value, or to the default sentinel only, is reset to the
\* default; this holds for every attribute of filter_mapping, also when no
\* point of the payload carries the attribute.
C29_EmptyAttributesReset ==
    Interacted =>
        \A a \in DOMAIN call.filter_mapping :
            NothingResolved(call, a) =>
                \A k \in SeqToSet(call.filter_mapping[a].keys) :
                    StoreAfter[k] = call.default_value

\* the same for the attributes "x" and "y" and for every attribute that a point
\* of the payload carries
C29_PresentAttributesReset ==
    Interacted =>
        \A a \in DOMAIN call.filter_mapping :
            (/\ NothingResolved(call, a)
             /\ \/ a \in {"x", "y"}
                \/ \E i \in 1..Len(Decoded(call).points) : a \in DOMAIN Decoded(call).points[i]) =>
                \A k \in SeqToSet(call.filter_mapping[a].keys) :
                    StoreAfter[k] = call.default_value

\* the indexes nearest to a coordinate given in tenths (two when it lies half way)
NearestIndexes(n) == {i \in (n \div 10 - 1)..(n \div 10 + 1) : 10 * i - n <= 5 /\ n - 10 * i <= 5}
\* what a point's coordinate stands for on an axis with an order list: the label
\* at a nearest index inside the list for a number, the integer for a digit
\* string that names an entry of the hour axis, the value itself otherwise
LabelsFor(v, order, digits) ==
    IF v.tag = "num"
    THEN {order[i + 1] : i \in {j \in NearestIndexes(v.n) : 0 <= j /\ j < Len(order)}}
    ELSE IF digits /\ IsDigitStr(v) /\ \E i \in 1..Len(order) : order[i] = IntV(DigitValue[v.s[1]])
    THEN {IntV(DigitValue[v.s[1]])}
    ELSE {v}
\* a call on a chart with both order lists whose selection has points
OrderedPoints ==
    /\ HasReturned
    /\ ~call.x_order.none /\ ~call.y_order.none
    /\ PayloadTruthy(call.selected_data)
    /\ call.selected_data.hasPoints
    /\ call.selected_data.points # <<>>
AxisOrder(c, a) == IF a = "x" THEN c.x_order.l ELSE c.y_order.l
SameValues(stored, V) ==
    /\ stored.tag = "list"
    /\ \A v \in V : \E j \in 1..Len(stored.l) : PyEq(stored.l[j], v)
    /\ \A j \in 1..Len(stored.l) : \E v \in V : PyEq(stored.l[j], v)

\* C30: against an order list a numeric coordinate of a point resolves to the
\* label at the nearest integer index; a coordinate whose nearest index is
\* negative or not less than the length of the list contributes no value (it
\* never counts from the end of the list); a digit string on the y axis resolves
\* to the integer when the integer is in the order list. The chart's own
\* selection writes exactly these values to the mapped key, and the default when
\* none is left.
C30_PointsResolveByNearestIndex ==
    OrderedPoints =>
        LET pts == call.selected_data.points
            parsed == _parse_selected_points(call.selected_data, call.x_order, call.y_order)
        IN \A a \in {"x", "y"} :
              LET own == {i \in 1..Len(pts) : a \in DOMAIN pts[i]}
                  labels(i) == LabelsFor(pts[i][a], AxisOrder(call, a), a = "y")
              IN own # {} =>
                   /\ a \in DOMAIN parsed
                   /\ parsed[a] \subseteq UNION {labels(i) : i \in own}
                   /\ \A i \in own : labels(i) # {} => labels(i) \cap parsed[a] # {}
                   /\ (SelfTriggered(call) /\ ~call.selected_data.hasRange /\ ret.kind # "raise") =>
                         LET k == call.filter_mapping[a].keys[1]
                         IN IF parsed[a] = {}
                            THEN StoreAfter[k] = call.default_value
                            ELSE SameValues(StoreAfter[k], parsed[a])

C30_Witness ==
    /\ OrderedPoints
    /\ SelfTriggered(call)
    /\ ret.kind = "update"
    /\ \E i \in 1..Len(call.selected_data.points) :
          /\ call.selected_data.points[i]["x"].tag = "num"
          /\ call.selected_data.points[i]["x"].n < -5
    /\ \E i \in 1..Len(call.selected_data.points) :
          /\ call.selected_data.points[i]["x"].tag = "num"
          /\ call.selected_data.points[i]["x"].n % 10 # 0
          /\ LabelsFor(call.selected_data.points[i]["x"], call.x_order.l, FALSE) # {}
    /\ ret.store["day_of_week"] = ListV(<<StrV("Tuesday")>>)
    /\ ret.store["hour"] = ListV(<<IntV(0), IntV(21)>>)

\* the single-key attributes of the call that resolve to values to store
SingleKeyAttrs(c) ==
    {a \in DOMAIN c.filter_mapping :
        /\ ~c.filter_mapping[a].tuple
        /\ ResolvedFor(c, a) # {}
        /\ ResolvedFor(c, a) # {c.default_value}}
AsInt(v) == IntV(ToInt(v))
InOrder(q) == \A i, j \in 1..Len(q) : i < j => ~PyLess(q[j], q[i])

\* C31: for a key mapped from one attribute the stored list is sorted and holds
\* either every resolved value converted to an integer or every resolved value
\* as it was, never some of each; and it is the list the code stores whichever
\* value of the set it meets first.
C31_CoercionAllOrNothing ==
    Interacted =>
        \A a \in SingleKeyAttrs(call) :
            LET V == ResolvedFor(call, a)
                stored == StoreAfter[call.filter_mapping[a].keys[1]]
            IN /\ stored.tag = "list"
               /\ Len(stored.l) = Cardinality(V)
               /\ InOrder(stored.l)
               /\ \/ /\ \A v \in V : CanInt(v)
                     /\ SeqToSet(stored.l) = {AsInt(v) : v \in V}
                  \/ SeqToSet(stored.l) = V
               /\ \A first_val \in V : CategoricalSelection(V, first_val) = Stored(stored.l)

\* a selection on the heatmap whose day values are "5" and "Monday" (one parses,
\* one does not) and whose hour values all parse
C31_Witness ==
    /\ Interacted
    /\ ret.kind = "update"
    /\ ResolvedFor(call, "x") = {StrV("5"), StrV("Monday")}
    /\ ret.store["day_of_week"] = ListV(<<StrV("5"), StrV("Monday")>>)
    /\ ret.store["hour"] = ListV(<<IntV(5), IntV(23)>>)

\* the last invocation of a memoized hierarchical controller, if there was one
Invoked == hcache.last.fn # "none"
\* what the body of the controller returns for the arguments of the last invocation
BodyOfLast ==
    plain_controller(ChartNamed(hcache.last.fn), hcache.last.args[4], hcache.last.args[2],
                     hcache.last.args[3])
\* the entries cached for the function, store and click of the last invocation
\* under another trigger
OtherTriggerEntries ==
    {e \in hcache.entries :
        /\ e.fn = hcache.last.fn
        /\ e.key[1] = hcache.last.args[1]
        /\ e.key[2] = hcache.last.args[2]
        /\ e.key[3] = hcache.last.args[3]
        /\ e.key[4] # hcache.last.args[4]}

\* C32: the two hierarchical controllers key their cache by the trigger too: an
\* invocation returns what its body returns for its own trigger, whatever was
\* cached for the same store and click under another trigger, and on a hit the
\* entry used was stored under the invocation's trigger.
C32_TriggerInMemoKey ==
    (Invoked /\ hcache.last.out.kind # "error") =>
        /\ hcache.last.out = BodyOfLast
        /\ \E e \in hcache.entries :
              /\ e.fn = hcache.last.fn
              /\ e.key = hcache.last.args
              /\ e.out = hcache.last.out

\* a hit for the chart's own click while the cache holds a different result for
\* the same store and click triggered by the store
C32_Witness ==
    /\ Invoked
    /\ hcache.last.hit
    /\ hcache.last.args[4] = ChartNamed(hcache.last.fn).component_id
    /\ hcache.last.out.kind = "write"
    /\ \E e \in OtherTriggerEntries : e.key[4] = StoreId /\ e.out # hcache.last.out

\* C33: a new store returned by update_filters_from_crossfilter_selection has
\* every key of the current store, the current value on every key that is not a
\* mapped key of the chart, no key besides; and the dict passed as
\* current_filters holds after the call what it held before.
C33_OtherKeysKept ==
    (HasReturned /\ ret.kind = "update") =>
        /\ DOMAIN call.current_filters \subseteq DOMAIN ret.store
        /\ (DOMAIN ret.store) \ MappedKeys(call) \subseteq DOMAIN call.current_filters
        /\ \A k \in (DOMAIN call.current_filters) \ MappedKeys(call) :
              ret.store[k] = call.current_filters[k]
        /\ CurrentFiltersAfter(call) = call.current_filters

\* a new store that differs on a mapped key from a store with other keys set
C33_Witness ==
    /\ HasReturned
    /\ ret.kind = "update"
    /\ call.current_filters["department_state"] = StrV("NY")
    /\ ret.store["department_state"] = StrV("NY")
    /\ \E k \in MappedKeys(call) : ret.store[k] # call.current_filters[k]
    /\ WrittenObject(call) = "new_filters"

\* the store that update_filter_store returns for the control values that
\* sync_filters_to_ui produces from the store S
RoundTrip(S) == update_filter_store(sync_filters_to_ui(S), S)

KeyFor(path) == IF path = <<>> THEN AllV ELSE ListV(<<PathV(path)>>)
\* the number of zoom-out clicks made, and of those among them that moved up
Clicks == Len(zoom.results)
Ups == IF Clicks < Len(zoom.start) THEN Clicks ELSE Len(zoom.start)

\* C35: from a store whose hierarchical key holds a path of n segments, each
\* click on the centre node writes the store with the path one segment shorter;
\* after n clicks the key holds the default, and the click after that returns no
\* update and leaves the store as it is. The other keys keep their values.
C35_ZoomOutEndsAtRoot ==
    zoom.chart # "none" =>
        /\ \A i \in 1..Clicks :
              zoom.results[i] = IF i <= Len(zoom.start) THEN "write" ELSE "no_update"
        /\ zoom.store[HierarchicalKey(ChartNamed(zoom.chart))] =
              KeyFor(SubSeq(zoom.start, 1, Len(zoom.start) - Ups))
        /\ Clicks >= Len(zoom.start) =>
              zoom.store[HierarchicalKey(ChartNamed(zoom.chart))] = AllV

\* three clicks from a path of two segments: two writes and a suppressed click
C35_Witness ==
    /\ zoom.chart = "incident_types"
    /\ Len(zoom.start) = 2
    /\ zoom.results = <<"write", "write", "no_update">>
    /\ zoom.store["type_incident"] = AllV
    /\ zoom.store["department_state"] = StrV("NY")

\* the response grants READ to the entity "ALL"
GrantsAll(response) == "ALL" \in DOMAIN response /\ "READ" \in response["ALL"]

C36_AbortWitness ==
    /\ authCall.called
    /\ authCall.aborted
    /\ authCall.fetched
    /\ \A sid \in Sids : ~redisAuth[sid].present

\* C37: however the calls of the threads interleave, the secret is fetched at
\* most once, every call that returns gives the same value, which is the cached
\* one; and as long as no fetch has succeeded the cache has no entry, however
\* many requests have failed.
C37_SecretFetchedOnce ==
    /\ secrets.fetched <= 1
    /\ Cardinality((UNION {SeqToSet(secrets.returned[t]) : t \in Threads}) \ {Raises}) <= 1
    /\ \A t \in Threads : \A i \in 1..Len(secrets.returned[t]) :
          secrets.returned[t][i] # Raises =>
              secrets.cache = [present |-> TRUE, val |-> secrets.returned[t][i]]
    /\ secrets.fetched = 0 => ~secrets.cache.present
    /\ secrets.cache.present => secrets.fetched = 1

\* two threads both found the cache empty; one request failed, one succeeded,
\* and both threads have got the same secret
C37_Witness ==
    /\ secrets.requests >= 2
    /\ secrets.fetched = 1
    /\ \E t \in Threads : \E i \in 1..Len(secrets.returned[t]) : secrets.returned[t][i] = Raises
    /\ \A t \in {1, 2} : \E i \in 1..Len(secrets.returned[t]) :
          secrets.returned[t][i] = secrets.cache.val
    /\ secrets.cache.present

\* the request carries the header "Bearer <token>" for the token tok
BearerHeader(tok) == request.auth_header = BearerPrefix \o tok
Extracted == request.made /\ request.done /\ request.has_request_context

\* C38: for an Authorization header "Bearer <token>" the function returns
\* exactly <token>, whatever the token is, and the query parameter is returned
\* only when the header carries no token.
C38_BearerTokenReturned ==
    Extracted =>
        /\ \A tok \in Tokens : BearerHeader(tok) => request.token = Text(tok)
        /\ request.auth_header = <<>> =>
              request.token = IF request.query_token.text # <<>>
                              THEN request.query_token ELSE NoText

\* the same for the tokens whose first character is none of "B", "e", "a", "r", " "
C38_TokenReturnedUnlessStripped ==
    Extracted =>
        /\ \A tok \in Tokens :
              (BearerHeader(tok) /\ Head(tok) \notin SeqToSet(BearerPrefix)) =>
                  request.token = Text(tok)
        /\ request.auth_header = <<>> =>
              request.token = IF request.query_token.text # <<>>
                              THEN request.query_token ELSE NoText
==============================================================================
